---- MODULE Spec2Model ----
(***************************************************************************)
(* Routing core of AuraSafe (project/backend/routing/sa_a_star.py):        *)
(* EnhancedUrbanGraph (graph builder, update_uti_scores),                  *)
(* ProductionSafetyAwareAStar (A* search, path reconstruction, polyline    *)
(* analysis) and EnhancedRouteOptimizer (calculate_safe_route,             *)
(* get_alternative_routes); and the UTI model of                           *)
(* project/backend/ml_core/stgcn_model.py (predict_uti_score).             *)
(*                                                                         *)
(* Number representation (the source uses floats):                         *)
(*   lat, lng            integers, unit 1e-4 degree (40.7000 -> 407000)    *)
(*   distance_km         integers, unit 1 metre   (0.2 km -> 200)          *)
(*   Node.uti_score      integers, unit 1/1000    (0.5 -> 500)             *)
(*   Edge.avg_uti_score  integers, unit 1/2000    (0.5 -> 1000), so that   *)
(*                       (from + to) / 2.0 is exact: it is from + to       *)
(*   lighting_score, foot_traffic_score, road modifier: unit 1/10          *)
(*   safety_weight       integers, unit 1/10      (0.5 -> 5)               *)
(*   safety cost         unit 1/20000;  g, h, f costs: unit 1/2000000      *)
(* Node ids: "node_<i>" is the tuple <<"node", i>>; the ids the request    *)
(* handler generates, "node_<i>_<j>", are the tuples <<"node", i, j>>.     *)
(***************************************************************************)
EXTENDS Integers, Sequences, FiniteSets, TLC

VARIABLES
    nodes,          \* EnhancedUrbanGraph.nodes: id -> Node
    edges,          \* EnhancedUrbanGraph.edges: id -> sequence of Edge
    uti_cache,      \* EnhancedUrbanGraph.uti_cache: id -> score
    built,          \* the arguments the graph was built with
    build_i,        \* create_enhanced_graph: rows of the edge loop done
    call,           \* the graph operation that ran last
    request,        \* the call in progress, with its arguments
    pc,             \* "idle", "searching" (inside the loop of _a_star_search),
                    \* "routing" (inside calculate_safe_route, scores applied)
                    \* or "done" (the call has returned result)
    start_node,     \* _a_star_search: id of start_node
    end_node,       \* _a_star_search: id of end_node
    open_set,       \* _a_star_search: the heap list, as node ids
    closed_set,     \* _a_star_search: set of node ids
    path_nodes,     \* _a_star_search: id -> PathNode
    nodes_explored, \* _a_star_search: counter of the loop
    result,         \* what the last call returned
    alternatives,   \* get_alternative_routes: the list "alternatives"
    is_loaded,      \* prediction_engine.is_loaded
    hash_seed,      \* the str hash seed of the process (PYTHONHASHSEED)
    osrm_cache      \* EnhancedUrbanGraph.osrm_cache: cache key -> route points

graphVars == <<nodes, edges, uti_cache>>

searchVars == <<request, pc, start_node, end_node, open_set, closed_set,
                path_nodes, nodes_explored, result>>

engineVars == <<alternatives, is_loaded, hash_seed, osrm_cache>>

vars == <<nodes, edges, uti_cache, built, build_i, call, request, pc,
          start_node, end_node, open_set, closed_set, path_nodes,
          nodes_explored, result, alternatives, is_loaded, hash_seed,
          osrm_cache>>

----------------------------------------------------------------------------
(* Bounds of the model *)

\* longest coordinate list handed to create_enhanced_graph
MaxNodes == 3
\* entries of one uti_predictions map
MaxMapSize == 1

----------------------------------------------------------------------------
(* Helpers *)

Min(a, b) == IF a <= b THEN a ELSE b
Max(a, b) == IF a >= b THEN a ELSE b
Abs(a) == IF a < 0 THEN -a ELSE a

RECURSIVE SqrtBetween(_, _, _)
SqrtBetween(n, lo, hi) ==
    IF lo >= hi THEN lo
    ELSE LET mid == (lo + hi + 1) \div 2
         IN IF mid * mid <= n THEN SqrtBetween(n, mid, hi)
                              ELSE SqrtBetween(n, lo, mid - 1)

\* floor of the square root
ISqrt(n) == SqrtBetween(n, 0, 46340)

\* geopy.distance.geodesic(p, q).kilometers, in metres: the WGS-84 distance
\* near latitude 40.75 (111.0 km per degree of latitude, 84.3 km per degree
\* of longitude), rounded down.
geodesic(lat1, lng1, lat2, lng2) ==
    LET dy == (1110 * Abs(lat1 - lat2)) \div 100
        dx == (843 * Abs(lng1 - lng2)) \div 100
    IN ISqrt(dy * dy + dx * dx)

\* f"node_{i}"
NodeId(i) == <<"node", i>>

\* None where a node or a PathNode is expected (nearest_node, parent)
NoNode == << >>

\* None where a route result is expected
None == [ route_type |-> "None" ]

\* the locals of _a_star_search when no search is running
NoSearch ==
    [ start_node |-> NoNode, end_node |-> NoNode, open_set |-> << >>,
      closed_set |-> {}, path_nodes |-> [ id \in {} |-> 0 ],
      nodes_explored |-> 0 ]

\* no routing call is in progress
NoRequest == [ op |-> "None" ]

\* no routing call has been made yet
SearchIdle ==
    /\ request = NoRequest
    /\ pc = "idle"
    /\ start_node = NoSearch.start_node
    /\ end_node = NoSearch.end_node
    /\ open_set = NoSearch.open_set
    /\ closed_set = NoSearch.closed_set
    /\ path_nodes = NoSearch.path_nodes
    /\ nodes_explored = NoSearch.nodes_explored
    /\ result = None

\* ProductionSTGCNModel() has been constructed, initialize_model has not run,
\* and get_alternative_routes has not been called; the process runs with the
\* given hash seed
EngineIdle(seed) ==
    /\ alternatives = << >>
    /\ is_loaded = FALSE
    /\ hash_seed = seed
    /\ osrm_cache = << >>

\* hash(f"{lat:.4f},{lng:.4f}") % 100: a str hash, fixed within a process and
\* different from one process (hash seed) to the next
CoordHash(lat, lng, seed) == (7 * lat + 13 * lng + 31 * seed + 17 * seed * (lat + lng)) % 100

----------------------------------------------------------------------------
(* EnhancedUrbanGraph: static helpers *)

_determine_node_type(lat, lng) ==
    IF 407400 <= lat /\ lat <= 407800 /\ -740100 <= lng /\ lng <= -739700
    THEN "urban_center"
    ELSE IF lng < -740050 \/ lng > -739400
    THEN "waterfront"
    ELSE "residential"

_calculate_initial_uti(lat, lng, seed) ==
    LET distance == geodesic(lat, lng, 407580, -739855)
        base_uti == Min(600, distance \div 10)
        variation == 2 * CoordHash(lat, lng, seed)
    IN Min(800, base_uti + variation)

_is_valid_connection_open(node1, node2) == TRUE

_is_valid_connection_closed(node1, node2) ==
    LET band == 407000 <= Min(node1.lat, node2.lat) /\ Min(node1.lat, node2.lat) <= 408000
    IN /\ ~ ( /\ \/ (node1.lng <= -739600 /\ node2.lng >= -739500)
                 \/ (node1.lng >= -739500 /\ node2.lng <= -739600)
              /\ band )
       /\ ~ ( /\ \/ (node1.lng <= -740100 /\ node2.lng >= -740000)
                 \/ (node1.lng >= -740000 /\ node2.lng <= -740100)
              /\ band )

_is_valid_connection(node1, node2) ==
    LET band == 407000 <= Min(node1.lat, node2.lat) /\ Min(node1.lat, node2.lat) <= 408000
    IN /\ ~ ( /\ \/ (node1.lng < -739600 /\ node2.lng > -739500)
                 \/ (node1.lng > -739500 /\ node2.lng < -739600)
              /\ band )
       /\ ~ ( /\ \/ (node1.lng < -740100 /\ node2.lng > -740000)
                 \/ (node1.lng > -740000 /\ node2.lng < -740100)
              /\ band )

_determine_road_type(node1, node2) ==
    IF node1.node_type = "urban_center" \/ node2.node_type = "urban_center"
    THEN "arterial"
    ELSE IF node1.node_type = "waterfront" \/ node2.node_type = "waterfront"
    THEN "highway"
    ELSE "residential"

_calculate_lighting_score(node1, node2) ==
    IF node1.node_type = "urban_center" \/ node2.node_type = "urban_center"
    THEN 9
    ELSE IF node1.node_type = "waterfront" \/ node2.node_type = "waterfront"
    THEN 4
    ELSE 6

_calculate_traffic_score(node1, node2) ==
    IF node1.node_type = "urban_center" \/ node2.node_type = "urban_center"
    THEN 8
    ELSE IF node1.node_type = "waterfront" \/ node2.node_type = "waterfront"
    THEN 3
    ELSE 5

----------------------------------------------------------------------------
(* EnhancedUrbanGraph: construction *)

\* Node(id, lat, lng, uti_score, node_type), as create_enhanced_graph builds it
MakeNode(i, lat, lng, seed) ==
    [ id |-> NodeId(i), lat |-> lat, lng |-> lng,
      uti_score |-> _calculate_initial_uti(lat, lng, seed),
      node_type |-> _determine_node_type(lat, lng) ]

\* the edge with avg_uti_score taken from node1 alone
MakeEdgeFromOnly(node1, node2, distance) ==
    [ from_node |-> node1.id, to_node |-> node2.id,
      distance_km |-> distance,
      avg_uti_score |-> 2 * node1.uti_score,
      road_type |-> _determine_road_type(node1, node2),
      lighting_score |-> _calculate_lighting_score(node1, node2),
      foot_traffic_score |-> _calculate_traffic_score(node1, node2) ]

\* Edge(from_node, to_node, ...): the node references are held as node ids
MakeEdge(node1, node2, distance) ==
    [ from_node |-> node1.id, to_node |-> node2.id,
      distance_km |-> distance,
      avg_uti_score |-> node1.uti_score + node2.uti_score,
      road_type |-> _determine_road_type(node1, node2),
      lighting_score |-> _calculate_lighting_score(node1, node2),
      foot_traffic_score |-> _calculate_traffic_score(node1, node2) ]

\* add_edge: the edge goes to edges[from], a reversed copy to edges[to]
add_edge(es, edge) ==
    LET reverse_edge == [edge EXCEPT !.from_node = edge.to_node,
                                     !.to_node = edge.from_node]
        fwd == [es EXCEPT ![edge.from_node] = Append(@, edge)]
    IN [fwd EXCEPT ![edge.to_node] = Append(@, reverse_edge)]

\* the body of the inner loop of create_enhanced_graph without "if i != j"
VisitPairNoSelfCheck(es, ns, i, j, threshold) ==
    LET node1 == ns[NodeId(i)]
        node2 == ns[NodeId(j)]
        distance == geodesic(node1.lat, node1.lng, node2.lat, node2.lng)
    IN IF distance <= threshold /\ _is_valid_connection(node1, node2)
       THEN add_edge(es, MakeEdge(node1, node2, distance))
       ELSE es

\* the body of the inner loop as the one that visits every pair once, "if i < j"
VisitPairOnce(es, ns, i, j, threshold) ==
    LET node1 == ns[NodeId(i)]
        node2 == ns[NodeId(j)]
        distance == geodesic(node1.lat, node1.lng, node2.lat, node2.lng)
    IN IF i < j /\ distance <= threshold /\ _is_valid_connection(node1, node2)
       THEN add_edge(es, MakeEdge(node1, node2, distance))
       ELSE es

\* the body of the inner loop of create_enhanced_graph for the pair (i, j)
VisitPair(es, ns, i, j, threshold) ==
    LET node1 == ns[NodeId(i)]
        node2 == ns[NodeId(j)]
        distance == geodesic(node1.lat, node1.lng, node2.lat, node2.lng)
    IN IF i # j /\ distance <= threshold /\ _is_valid_connection(node1, node2)
       THEN add_edge(es, MakeEdge(node1, node2, distance))
       ELSE es

\* y, once x has been evaluated (keeps the evaluation of a loop shallow)
After(x, y) == IF DOMAIN x = DOMAIN x THEN y ELSE y

RECURSIVE InnerLoop(_, _, _, _, _, _)
\* the inner loop "for j, node2 in enumerate(nodes)" for j = lo .. hi, in
\* this order: the lower half of the range, then the upper half
InnerLoop(es, ns, i, lo, hi, threshold) ==
    IF lo > hi THEN es
    ELSE IF lo = hi THEN VisitPair(es, ns, i, lo, threshold)
    ELSE LET mid == (lo + hi) \div 2
             lower == InnerLoop(es, ns, i, lo, mid, threshold)
         IN After(lower, InnerLoop(lower, ns, i, mid + 1, hi, threshold))

RECURSIVE OuterLoop(_, _, _, _, _, _)
\* the outer loop "for i, node1 in enumerate(nodes)" for i = lo .. hi, in
\* this order; n is the number of nodes
OuterLoop(es, ns, lo, hi, n, threshold) ==
    IF lo > hi THEN es
    ELSE IF lo = hi THEN InnerLoop(es, ns, lo, 0, n - 1, threshold)
    ELSE LET mid == (lo + hi) \div 2
             lower == OuterLoop(es, ns, lo, mid, n, threshold)
         IN After(lower, OuterLoop(lower, ns, mid + 1, hi, n, threshold))

\* create_enhanced_graph(coordinates, connection_threshold_km); coordinates is
\* a sequence of [lat, lng]; node i (0-based) is coordinates[i + 1]
create_enhanced_graph(coordinates, threshold, seed) ==
    LET n == Len(coordinates)
        ids == { NodeId(i) : i \in 0 .. n - 1 }
        ns == [ id \in ids |->
                  MakeNode(id[2], coordinates[id[2] + 1].lat,
                           coordinates[id[2] + 1].lng, seed) ]
        es0 == [ id \in ids |-> << >> ]
    IN [ nodes |-> ns, edges |-> OuterLoop(es0, ns, 0, n - 1, n, threshold) ]

----------------------------------------------------------------------------
(* EnhancedUrbanGraph.update_uti_scores *)

\* the first loop with "if node_id in self.nodes" left out
ApplyScoresCreating(ns, uti_predictions) ==
    [ id \in DOMAIN ns \cup DOMAIN uti_predictions |->
        IF id \in DOMAIN uti_predictions
        THEN IF id \in DOMAIN ns
             THEN [ns[id] EXCEPT !.uti_score = uti_predictions[id]]
             ELSE [ id |-> id, lat |-> 0, lng |-> 0,
                    uti_score |-> uti_predictions[id], node_type |-> "street" ]
        ELSE ns[id] ]

\* the first loop: scores of the ids that are in the graph
ApplyScores(ns, uti_predictions) ==
    [ id \in DOMAIN ns |->
        IF id \in DOMAIN uti_predictions
        THEN [ns[id] EXCEPT !.uti_score = uti_predictions[id]]
        ELSE ns[id] ]

\* the first loop, cache side
ApplyCache(cache, ns, uti_predictions) ==
    [ id \in DOMAIN cache \cup (DOMAIN uti_predictions \cap DOMAIN ns) |->
        IF id \in DOMAIN uti_predictions /\ id \in DOMAIN ns
        THEN uti_predictions[id]
        ELSE cache[id] ]

\* the second loop, recomputing only the edges that leave an updated node
RecomputeEdgesOfUpdated(es, ns, uti_predictions) ==
    [ id \in DOMAIN es |->
        IF id \in DOMAIN uti_predictions
        THEN [ k \in 1 .. Len(es[id]) |->
                 [es[id][k] EXCEPT !.avg_uti_score =
                     ns[es[id][k].from_node].uti_score
                   + ns[es[id][k].to_node].uti_score] ]
        ELSE es[id] ]

\* the second loop: every edge of every adjacency list
RecomputeEdges(es, ns, uti_predictions) ==
    [ id \in DOMAIN es |->
        [ k \in 1 .. Len(es[id]) |->
            [es[id][k] EXCEPT !.avg_uti_score =
                ns[es[id][k].from_node].uti_score
              + ns[es[id][k].to_node].uti_score] ] ]

update_uti_scores(uti_predictions) ==
    LET ns == ApplyScores(nodes, uti_predictions)
    IN /\ nodes' = ns
       /\ uti_cache' = ApplyCache(uti_cache, nodes, uti_predictions)
       /\ edges' = RecomputeEdges(edges, ns, uti_predictions)

----------------------------------------------------------------------------
(* Inputs of the graph model *)

Coord(lat, lng) == [lat |-> lat, lng |-> lng]

\* Coordinates west and east of the Hudson River band (-74.01 .. -74.00),
\* west of, on the edge of and east of the East River band (-73.96 .. -73.95)
\* and south of the latitude band; one coordinate occurs twice
GraphPool ==
    << Coord(407500, -740150), Coord(407500, -739950), Coord(407500, -739650),
       Coord(407500, -739650), Coord(407500, -739450), Coord(407500, -739600),
       Coord(406950, -739650) >>

\* connection_threshold_km: the default of create_enhanced_graph and a wide one
Thresholds == { 500, 2000 }

\* the process's str hash seed (PYTHONHASHSEED) in the graph model
GraphSeeds == { 0 }

\* the coordinate lists: the runs of 1 .. MaxNodes consecutive pool entries
CoordinateLists(pool) ==
    { SubSeq(pool, i, Min(i + n - 1, Len(pool))) :
        i \in 1 .. Len(pool), n \in 1 .. MaxNodes }

\* scores a caller may hand to update_uti_scores, some outside [0, 1]
Scores == { -2000, 700, 1400 }

\* ids a uti_predictions map may carry: graph ids and an id of no node
PredictionIds(ns) == DOMAIN ns \cup { <<"node", 0, 0>> }

PredictionMaps(ns) ==
    UNION { [ D -> Scores ] :
            D \in { X \in SUBSET PredictionIds(ns) : Cardinality(X) <= MaxMapSize } }

EmptyCache == [ id \in {} |-> 0 ]

----------------------------------------------------------------------------
(* Graph model: a built graph and update_uti_scores calls *)

InitGraph ==
    \E coordinates \in CoordinateLists(GraphPool) :
    \E threshold \in Thresholds :
    \E seed \in GraphSeeds :
        LET g == create_enhanced_graph(coordinates, threshold, seed)
        IN /\ nodes = g.nodes
           /\ edges = g.edges
           /\ uti_cache = EmptyCache
           /\ built = [ coordinates |-> coordinates, threshold |-> threshold,
                        seed |-> seed ]
           /\ build_i = Len(coordinates)
           /\ call = [ op |-> "create_enhanced_graph" ]
           /\ SearchIdle
           /\ EngineIdle(seed)

\* graph.update_uti_scores(uti_predictions), called between routing calls
UpdateUti ==
    /\ pc = "idle"
    /\ \E uti_predictions \in PredictionMaps(nodes) :
           /\ update_uti_scores(uti_predictions)
           /\ call' = [ op |-> "update_uti_scores" ]
    /\ UNCHANGED <<built, build_i>>
    /\ UNCHANGED searchVars
    /\ UNCHANGED engineVars

NextGraph == UpdateUti

SpecGraph == InitGraph /\ [][NextGraph]_vars

----------------------------------------------------------------------------
(* Properties of the graph *)

AllEdges ==
    { e \in UNION { { edges[a][k] : k \in 1 .. Len(edges[a]) } : a \in DOMAIN edges } : TRUE }

SameScalars(e, r) ==
    /\ e.distance_km = r.distance_km
    /\ e.avg_uti_score = r.avg_uti_score
    /\ e.road_type = r.road_type
    /\ e.lighting_score = r.lighting_score
    /\ e.foot_traffic_score = r.foot_traffic_score

\* C1. Edge symmetry: for every edge a->b in edges[a] there is an edge b->a
\* in edges[b] with the same distance_km, avg_uti_score, road_type,
\* lighting_score and foot_traffic_score, in the built graph and after any
\* sequence of update_uti_scores calls.
C1_EdgeSymmetry ==
    \A a \in DOMAIN edges : \A k \in 1 .. Len(edges[a]) :
        LET e == edges[a][k]
        IN /\ e.to_node \in DOMAIN edges
           /\ \E m \in 1 .. Len(edges[e.to_node]) :
                LET r == edges[e.to_node][m]
                IN r.from_node = e.to_node /\ r.to_node = a /\ SameScalars(e, r)

\* updates have set the score of one endpoint only of an existing edge
C1_Witness ==
    /\ call.op = "update_uti_scores"
    /\ \E e \in AllEdges :
         /\ e.from_node \in DOMAIN uti_cache
         /\ e.to_node \notin DOMAIN uti_cache
         /\ nodes[e.from_node].uti_score # nodes[e.to_node].uti_score

\* C2. Right after the build and after every update_uti_scores call, every
\* edge of every adjacency list has avg_uti_score = (from.uti_score +
\* to.uti_score) / 2 for the current scores of its endpoints.
C2_AvgIsMean ==
    \A e \in AllEdges :
        e.avg_uti_score = nodes[e.from_node].uti_score + nodes[e.to_node].uti_score

\* updates have touched neither endpoint of some edge and an endpoint of
\* another one
C2_Witness ==
    /\ call.op = "update_uti_scores"
    /\ \E e \in AllEdges :
         e.from_node \notin DOMAIN uti_cache /\ e.to_node \notin DOMAIN uti_cache
    /\ \E e \in AllEdges : e.from_node \in DOMAIN uti_cache

\* C3. UTI bounds: after update_uti_scores with any map, scores below 0 or
\* above 1 included, every node has 0 <= uti_score <= 1 and every edge has
\* 0 <= avg_uti_score <= 1.
C3_UtiBounds ==
    call.op = "update_uti_scores" =>
        /\ \A id \in DOMAIN nodes :
             0 <= nodes[id].uti_score /\ nodes[id].uti_score <= 1000
        /\ \A e \in AllEdges :
             0 <= e.avg_uti_score /\ e.avg_uti_score <= 2000

\* what update_uti_scores(map) may change of nodes and edges: the uti_score
\* of the nodes whose id is in the map and in the graph, and avg_uti_score
UpdateFrame(map) ==
    /\ DOMAIN nodes' = DOMAIN nodes
    /\ \A id \in DOMAIN nodes :
         IF id \in DOMAIN map
         THEN nodes'[id] = [nodes[id] EXCEPT !.uti_score = nodes'[id].uti_score]
         ELSE nodes'[id] = nodes[id]
    /\ DOMAIN edges' = DOMAIN edges
    /\ \A a \in DOMAIN edges :
         /\ Len(edges'[a]) = Len(edges[a])
         /\ \A k \in 1 .. Len(edges[a]) :
              edges'[a][k] =
                 [edges[a][k] EXCEPT !.avg_uti_score = edges'[a][k].avg_uti_score]

\* C4 as claimed. Frame of update_uti_scores(map): it changes only the
\* uti_score of the nodes whose id is in the map and in the graph, and the
\* avg_uti_score of edges; nothing else of the graph object changes.
C4_FrameOnlyScores ==
    [][ \A map \in PredictionMaps(nodes) :
          update_uti_scores(map) =>
             UpdateFrame(map) /\ uti_cache' = uti_cache ]_vars

\* C4. Frame of update_uti_scores(map): it changes only the uti_score of the
\* nodes whose id is in the map and in the graph, the uti_cache entries of
\* those ids, and the avg_uti_score of edges; ids of no node are ignored, and
\* the node set, the adjacency structure and every edge's distance_km,
\* road_type, lighting_score and foot_traffic_score stay as they were.
C4_Frame ==
    [][ \A map \in PredictionMaps(nodes) :
          update_uti_scores(map) =>
          /\ UpdateFrame(map)
          /\ DOMAIN uti_cache' = DOMAIN uti_cache \cup (DOMAIN map \cap DOMAIN nodes)
          /\ \A id \in DOMAIN uti_cache \ DOMAIN map :
               uti_cache'[id] = uti_cache[id] ]_vars

\* updates have set the score of a node that has edges and left another
\* node of the graph alone
C4_Witness ==
    /\ call.op = "update_uti_scores"
    /\ \E id \in DOMAIN uti_cache : Len(edges[id]) > 0
    /\ DOMAIN uti_cache # DOMAIN nodes

\* C5. Well-formedness: every edge e stored in edges[x] has e.from = x and
\* e.to a key of nodes, and no edge joins a node to itself; in the built
\* graph and after any sequence of update_uti_scores calls.
C5_WellFormed ==
    \A x \in DOMAIN edges : \A k \in 1 .. Len(edges[x]) :
        /\ edges[x][k].from_node = x
        /\ edges[x][k].to_node \in DOMAIN nodes
        /\ edges[x][k].from_node # edges[x][k].to_node

\* a graph with two nodes at the same coordinates, joined by an edge, after
\* an update
C5_Witness ==
    /\ call.op = "update_uti_scores"
    /\ \E e \in AllEdges :
         /\ nodes[e.from_node].lat = nodes[e.to_node].lat
         /\ nodes[e.from_node].lng = nodes[e.to_node].lng

InLatBand(lat1, lat2) == 407000 <= Min(lat1, lat2) /\ Min(lat1, lat2) <= 408000

\* one longitude west of the band west .. east, the other east of it
Crosses(lng1, lng2, west, east) ==
    (lng1 < west /\ lng2 > east) \/ (lng2 < west /\ lng1 > east)

\* C6. Water exclusion: no edge joins two nodes where one has lng < -73.96
\* and the other lng > -73.95 (East River), or one has lng < -74.01 and the
\* other lng > -74.00 (Hudson River), while the smaller latitude lies in
\* [40.70, 40.80].
C6_WaterExclusion ==
    \A e \in AllEdges :
        LET a == nodes[e.from_node]
            b == nodes[e.to_node]
        IN ~ ( /\ InLatBand(a.lat, b.lat)
               /\ \/ Crosses(a.lng, b.lng, -739600, -739500)
                  \/ Crosses(a.lng, b.lng, -740100, -740000) )

\* the graph holds two nodes on either side of the East River band, within
\* the threshold of each other, that no edge joins
C6_Witness ==
    \E x, y \in DOMAIN nodes :
        /\ Crosses(nodes[x].lng, nodes[y].lng, -739600, -739500)
        /\ InLatBand(nodes[x].lat, nodes[y].lat)
        /\ geodesic(nodes[x].lat, nodes[x].lng, nodes[y].lat, nodes[y].lng)
              <= built.threshold
        /\ \A k \in 1 .. Len(edges[x]) : edges[x][k].to_node # y

----------------------------------------------------------------------------
(* Scenario S3: the lattice graph, built row by row *)

\* np.linspace(start, stop, num)[i], to 1e-4 degree
Linspace(start, stop, num, i) == start + (i * (stop - start)) \div (num - 1)

\* the coordinates initialize_graph hands to create_enhanced_graph: num x num
\* points over the rectangle sw .. ne, latitude by latitude
Lattice(sw, ne, num) ==
    [ k \in 1 .. num * num |->
        Coord(Linspace(sw.lat, ne.lat, num, (k - 1) \div num),
              Linspace(sw.lng, ne.lng, num, (k - 1) % num)) ]

\* scenario S3: 10 x 10 points over SW = (40.70, -74.02), NE = (40.78, -73.93)
S3Coordinates == Lattice(Coord(407000, -740200), Coord(407800, -739300), 10)

\* create_enhanced_graph after its node loop: every node, no edge yet
InitS3 ==
    \E seed \in GraphSeeds :
        LET n == Len(S3Coordinates)
            ids == { NodeId(i) : i \in 0 .. n - 1 }
        IN /\ nodes = [ id \in ids |->
                          MakeNode(id[2], S3Coordinates[id[2] + 1].lat,
                                   S3Coordinates[id[2] + 1].lng, seed) ]
           /\ edges = [ id \in ids |-> << >> ]
           /\ uti_cache = EmptyCache
           /\ built = [ coordinates |-> S3Coordinates, threshold |-> 2000,
                        seed |-> seed ]
           /\ build_i = 0
           /\ call = [ op |-> "create_enhanced_graph" ]
           /\ SearchIdle
           /\ EngineIdle(seed)

\* one pass of the outer edge loop of create_enhanced_graph: node1 = node
\* build_i against every node2
BuildRow ==
    /\ build_i < Len(built.coordinates)
    /\ edges' = InnerLoop(edges, nodes, build_i, 0, Len(built.coordinates) - 1,
                          built.threshold)
    /\ build_i' = build_i + 1
    /\ UNCHANGED <<nodes, uti_cache, built, call>>
    /\ UNCHANGED searchVars
    /\ UNCHANGED engineVars

NextS3 == BuildRow

SpecS3 == InitS3 /\ [][NextS3]_vars

\* the two longitudes lie on either side of the meridian x
Straddles(lng1, lng2, x) == (lng1 < x /\ lng2 > x) \/ (lng2 < x /\ lng1 > x)

\* C7 as claimed. Scenario S3: in the lattice graph over SW = (40.70, -74.02),
\* NE = (40.78, -73.93) with 10 points per axis and a 2.0 km threshold, no
\* edge in the latitude band has one endpoint on each side of lng = -74.005
\* or one on each side of lng = -73.945.
C7_NoStraddle ==
    \A e \in AllEdges :
        LET a == nodes[e.from_node]
            b == nodes[e.to_node]
        IN InLatBand(a.lat, b.lat) =>
             /\ ~ Straddles(a.lng, b.lng, -740050)
             /\ ~ Straddles(a.lng, b.lng, -739450)

\* C7. Scenario S3: no edge of the lattice graph in the latitude band has one
\* endpoint at lng < -74.01 and the other at lng > -74.00, or one at
\* lng < -73.96 and the other at lng > -73.95; the edges between the lattice
\* columns -74.01 and -74.00 (either side of lng = -74.005) and between the
\* columns -73.95 and -73.94 (either side of lng = -73.945) are in the graph.
C7_S3Edges ==
    /\ \A e \in AllEdges :
         LET a == nodes[e.from_node]
             b == nodes[e.to_node]
         IN InLatBand(a.lat, b.lat) =>
              /\ ~ Crosses(a.lng, b.lng, -740100, -740000)
              /\ ~ Crosses(a.lng, b.lng, -739600, -739500)
    /\ build_i = Len(built.coordinates) =>
         \A x, y \in DOMAIN nodes :
            ( /\ nodes[x].lat = nodes[y].lat
              /\ \/ (nodes[x].lng = -740100 /\ nodes[y].lng = -740000)
                 \/ (nodes[x].lng = -739500 /\ nodes[y].lng = -739400) )
            => \E k \in 1 .. Len(edges[x]) : edges[x][k].to_node = y

\* the S3 graph is complete: 100 nodes, every row of the edge loop done, and
\* nodes two and three columns apart on one latitude are within the threshold
\* or not
C7_Witness ==
    /\ Cardinality(DOMAIN nodes) = 100
    /\ build_i = Len(built.coordinates)
    /\ \E x, y \in DOMAIN nodes :
         /\ nodes[x].lng = -740200 /\ nodes[y].lng = -740000
         /\ \E k \in 1 .. Len(edges[x]) : edges[x][k].to_node = y
    /\ \E x, y \in DOMAIN nodes :
         /\ nodes[x].lat = nodes[y].lat
         /\ nodes[x].lng = -740200 /\ nodes[y].lng = -739900
         /\ \A k \in 1 .. Len(edges[x]) : edges[x][k].to_node # y

----------------------------------------------------------------------------
(* ProductionSafetyAwareAStar: costs                                       *)
(* W is safety_weight in tenths; distance_weight is 10 - W                 *)

\* Edge.get_safety_cost, unit 1/20000:
\* 0.7 * avg_uti_score + 0.3 * (1 - (0.3 * lighting + 0.2 * foot_traffic))
get_safety_cost(edge) ==
    7 * edge.avg_uti_score
      + 60 * (100 - (3 * edge.lighting_score + 2 * edge.foot_traffic_score))

\* road_modifiers.get(edge.road_type, 1.0), in tenths
road_modifier(road_type) ==
    CASE road_type = "highway" -> 8
      [] road_type = "arterial" -> 10
      [] road_type = "residential" -> 12
      [] road_type = "pedestrian" -> 15
      [] OTHER -> 10

\* calculate_edge_cost, unit 1/2000000
calculate_edge_cost(edge, W) ==
    (20 * (10 - W) * edge.distance_km + W * get_safety_cost(edge))
        * road_modifier(edge.road_type)

\* heuristic(node, goal), unit 1/2000000
heuristic(node, goal, W) ==
    200 * ( (10 - W) * geodesic(node.lat, node.lng, goal.lat, goal.lng)
            + W * goal.uti_score )

\* float('inf'), the g_cost and f_cost of a PathNode made without costs
inf == 2000000000

\* PathNode(node=neighbor)
PathNode(id) ==
    [ node |-> id, g_cost |-> inf, h_cost |-> 0, f_cost |-> inf,
      parent |-> NoNode ]

----------------------------------------------------------------------------
(* heapq on the list open_set; the list holds PathNodes, here their ids,   *)
(* and pn maps an id to the PathNode as it is now; positions are 0-based   *)

\* PathNode.__lt__
Less(pn, a, b) == pn[a].f_cost < pn[b].f_cost

RECURSIVE _siftdown(_, _, _, _, _)
\* heapq._siftdown(heap, startpos, pos), newitem being the item taken from pos
_siftdown(pn, heap, startpos, pos, newitem) ==
    IF pos > startpos
    THEN LET parentpos == (pos - 1) \div 2
             parent == heap[parentpos + 1]
         IN IF Less(pn, newitem, parent)
            THEN _siftdown(pn, [heap EXCEPT ![pos + 1] = parent],
                           startpos, parentpos, newitem)
            ELSE [heap EXCEPT ![pos + 1] = newitem]
    ELSE [heap EXCEPT ![pos + 1] = newitem]

\* heapq.heappush(heap, item)
heappush(pn, heap, item) ==
    _siftdown(pn, Append(heap, item), 0, Len(heap), item)

RECURSIVE _siftup(_, _, _, _, _)
\* heapq._siftup(heap, pos): the smaller child moves up until a leaf is hit,
\* then newitem is put there and sifted down to its place
_siftup(pn, heap, startpos, pos, newitem) ==
    LET endpos == Len(heap)
        childpos == 2 * pos + 1
        rightpos == childpos + 1
    IN IF childpos < endpos
       THEN LET c == IF rightpos < endpos
                        /\ ~ Less(pn, heap[childpos + 1], heap[rightpos + 1])
                     THEN rightpos
                     ELSE childpos
            IN _siftup(pn, [heap EXCEPT ![pos + 1] = heap[c + 1]],
                       startpos, c, newitem)
       ELSE _siftdown(pn, [heap EXCEPT ![pos + 1] = newitem],
                      startpos, pos, newitem)

\* heapq.heappop(heap) of a heap that is not empty
heappop(pn, heap) ==
    LET lastelt == heap[Len(heap)]
        rest == SubSeq(heap, 1, Len(heap) - 1)
    IN IF rest # << >>
       THEN [ item |-> rest[1],
              heap |-> _siftup(pn, [rest EXCEPT ![1] = lastelt], 0, 0, lastelt) ]
       ELSE [ item |-> lastelt, heap |-> rest ]

\* "x in open_set" as the one that finds every PathNode in the list
InListAlways(item, list) == TRUE

\* "x in open_set" as the one that finds no PathNode in the list
InListNever(item, list) == FALSE

\* "x in open_set": PathNodes of different nodes are never equal
InList(item, list) == \E k \in 1 .. Len(list) : list[k] = item

----------------------------------------------------------------------------
(* ProductionSafetyAwareAStar: graph search                                *)
(* Results: uti_score of a threat segment and safety_score have unit 1e-6  *)
(* (quotients rounded down), distance_km of a result has unit 10 m (two    *)
(* decimals of a kilometre), a path point is <<lng, lat>>.                 *)

\* the local constant max_explorations of _a_star_search
max_explorations == 15000

\* the node picked by the loop when its comparison is "distance >
\* max_distance": the first node farthest from coord
_find_farthest_node(ns, coord) ==
    LET n == Cardinality(DOMAIN ns)
        d(i) == geodesic(coord.lat, coord.lng, ns[NodeId(i)].lat, ns[NodeId(i)].lng)
    IN IF n = 0 THEN NoNode
       ELSE NodeId(CHOOSE i \in 0 .. n - 1 :
                       /\ \A j \in 0 .. n - 1 : d(i) >= d(j)
                       /\ \A j \in 0 .. i - 1 : d(j) < d(i))

\* _find_nearest_node: nodes.values() runs in insertion order, node_0 first,
\* and "distance < min_distance" keeps the first node at the least distance
_find_nearest_node(ns, coord) ==
    LET n == Cardinality(DOMAIN ns)
        d(i) == geodesic(coord.lat, coord.lng, ns[NodeId(i)].lat, ns[NodeId(i)].lng)
    IN IF n = 0 THEN NoNode
       ELSE NodeId(CHOOSE i \in 0 .. n - 1 :
                       /\ \A j \in 0 .. n - 1 : d(i) <= d(j)
                       /\ \A j \in 0 .. i - 1 : d(j) > d(i))

\* the body of "for edge in ..." as the one that records no parent
RelaxEdgeWithoutParent(st, closed, current, edge, goal, W) ==
    LET neighbor == edge.to_node
    IN IF neighbor \in closed THEN st
       ELSE
         LET tentative_g_cost == st.path_nodes[current].g_cost
                                    + calculate_edge_cost(edge, W)
             known == IF neighbor \in DOMAIN st.path_nodes
                      THEN st.path_nodes
                      ELSE [ id \in DOMAIN st.path_nodes \cup { neighbor } |->
                               IF id = neighbor THEN PathNode(neighbor)
                               ELSE st.path_nodes[id] ]
         IN IF tentative_g_cost < known[neighbor].g_cost
            THEN LET h == heuristic(nodes[neighbor], nodes[goal], W)
                     relaxed == [known EXCEPT ![neighbor] =
                                   [ node |-> neighbor,
                                     g_cost |-> tentative_g_cost,
                                     h_cost |-> h,
                                     f_cost |-> tentative_g_cost + h,
                                     parent |-> known[neighbor].parent ]]
                 IN [ path_nodes |-> relaxed,
                      open_set |-> IF InList(neighbor, st.open_set)
                                   THEN st.open_set
                                   ELSE heappush(relaxed, st.open_set, neighbor) ]
            ELSE [ path_nodes |-> known, open_set |-> st.open_set ]

\* the body of "for edge in self.graph.get_neighbors(current_node.id)";
\* st holds open_set and path_nodes, closed is closed_set
RelaxEdge(st, closed, current, edge, goal, W) ==
    LET neighbor == edge.to_node
    IN IF neighbor \in closed THEN st
       ELSE
         LET tentative_g_cost == st.path_nodes[current].g_cost
                                    + calculate_edge_cost(edge, W)
             known == IF neighbor \in DOMAIN st.path_nodes
                      THEN st.path_nodes
                      ELSE [ id \in DOMAIN st.path_nodes \cup { neighbor } |->
                               IF id = neighbor THEN PathNode(neighbor)
                               ELSE st.path_nodes[id] ]
         IN IF tentative_g_cost < known[neighbor].g_cost
            THEN LET h == heuristic(nodes[neighbor], nodes[goal], W)
                     relaxed == [known EXCEPT ![neighbor] =
                                   [ node |-> neighbor,
                                     g_cost |-> tentative_g_cost,
                                     h_cost |-> h,
                                     f_cost |-> tentative_g_cost + h,
                                     parent |-> current ]]
                 IN [ path_nodes |-> relaxed,
                      open_set |-> IF InList(neighbor, st.open_set)
                                   THEN st.open_set
                                   ELSE heappush(relaxed, st.open_set, neighbor) ]
            ELSE [ path_nodes |-> known, open_set |-> st.open_set ]

RECURSIVE RelaxLoop(_, _, _, _, _, _, _)
\* the loop over the adjacency list es of current, from its k-th edge on
RelaxLoop(st, closed, current, es, k, goal, W) ==
    IF k > Len(es) THEN st
    ELSE LET next == RelaxEdge(st, closed, current, es[k], goal, W)
         IN After(next.path_nodes,
                  RelaxLoop(next, closed, current, es, k + 1, goal, W))

\* datetime.now().hour is night: 22 <= current_hour or current_hour <= 5
IsNight(hour) == 22 <= hour \/ hour <= 5

\* _get_threat_reason: the list "reasons" before "; ".join
_get_threat_reason(uti_score, points, hour) ==
    LET level == IF uti_score > 700000 THEN << "High crime prediction area" >>
                 ELSE IF uti_score > 500000 THEN << "Moderate risk area" >>
                 ELSE << >>
        place == IF points = << >> THEN << >>
                 ELSE IF points[1].lng < -740050
                 THEN << "Waterfront area with limited visibility" >>
                 ELSE IF points[1].lng > -739400
                 THEN << "Industrial area with reduced foot traffic" >>
                 ELSE << >>
        time == IF IsNight(hour) THEN << "Late night/early morning hours" >>
                ELSE << >>
        reasons == level \o place \o time
    IN IF reasons # << >> THEN reasons ELSE << "Elevated risk area" >>

\* _get_mitigation_advice: the list "advice" before "; ".join
_get_mitigation_advice(uti_score, points, hour) ==
    LET level == IF uti_score > 700000
                 THEN << "Consider alternative route", "Travel with others" >>
                 ELSE IF uti_score > 500000
                 THEN << "Stay alert", "Avoid distractions" >>
                 ELSE << >>
        place == IF points # << >>
                    /\ (points[1].lng < -740050 \/ points[1].lng > -739400)
                 THEN << "Use well-lit main roads" >>
                 ELSE << >>
        time == IF IsNight(hour) THEN << "Consider daytime travel" >> ELSE << >>
        advice == level \o place \o time
    IN IF advice # << >> THEN advice ELSE << "Exercise normal caution" >>

\* None where an edge is expected
NoEdge == [ road_type |-> "None" ]

\* "for e in get_neighbors(from_id): if e.to_node.id == to_id: edge = e; break"
FirstEdgeTo(from_id, to_id) ==
    LET ks == { k \in 1 .. Len(edges[from_id]) : edges[from_id][k].to_node = to_id }
    IN IF ks = {} THEN NoEdge
       ELSE edges[from_id][CHOOSE k \in ks : \A m \in ks : k <= m]

RECURSIVE ParentChain(_, _)
\* "while current is not None: path_nodes.append(current); current =
\* current.parent", then reverse: the ids from the start to the PathNode id
ParentChain(pn, id) ==
    IF id = NoNode THEN << >>
    ELSE Append(ParentChain(pn, pn[id].parent), id)

\* round(total_distance, 2): metres to the nearest 10 m, a tie to the even one
round2(total_distance) ==
    LET q == total_distance \div 10
        r == total_distance % 10
    IN IF r < 5 THEN q
       ELSE IF r > 5 THEN q + 1
       ELSE IF q % 2 = 0 THEN q ELSE q + 1

\* int((total_distance / 5.0) * 60): minutes at 5 km/h, cut to an integer
estimated_time(total_distance) == (12 * total_distance) \div 1000

\* the body of "for i in range(len(path_nodes) - 1)" of
\* _reconstruct_enhanced_path; chain[i + 1] is path_nodes[i]
ReconstructStep(acc, chain, i, hour) ==
    LET from_node == nodes[chain[i + 1]]
        to_node == nodes[chain[i + 2]]
        edge == FirstEdgeTo(from_node.id, to_node.id)
        uti == 500 * edge.avg_uti_score
        points == << [lat |-> from_node.lat, lng |-> from_node.lng] >>
    IN IF edge # NoEdge
       THEN [ coordinates |-> Append(acc.coordinates, <<from_node.lng, from_node.lat>>),
              total_distance |-> acc.total_distance + edge.distance_km,
              total_safety_cost |-> acc.total_safety_cost + get_safety_cost(edge),
              threat_segments |->
                 IF edge.avg_uti_score > 1000
                 THEN Append(acc.threat_segments,
                             [ start_idx |-> i, end_idx |-> i + 1,
                               uti_score |-> uti,
                               reason |-> _get_threat_reason(uti, points, hour),
                               mitigation |-> _get_mitigation_advice(uti, points, hour) ])
                 ELSE acc.threat_segments ]
       ELSE acc

RECURSIVE ReconstructLoop(_, _, _, _)
ReconstructLoop(acc, chain, i, hour) ==
    IF i >= Len(chain) - 1 THEN acc
    ELSE LET next == ReconstructStep(acc, chain, i, hour)
         IN After(next.coordinates, ReconstructLoop(next, chain, i + 1, hour))

\* _reconstruct_enhanced_path as the one that scores the route by the node it
\* ends at: 1 - uti_score of the final node
_reconstruct_scoring_nodes(pn, end_id, W, hour) ==
    LET chain == ParentChain(pn, end_id)
        acc == ReconstructLoop([ coordinates |-> << >>, total_distance |-> 0,
                                 total_safety_cost |-> 0,
                                 threat_segments |-> << >> ], chain, 0, hour)
        final_node == nodes[chain[Len(chain)]]
    IN [ path |-> [ type |-> "LineString",
                    coordinates |->
                       IF chain # << >>
                       THEN Append(acc.coordinates, <<final_node.lng, final_node.lat>>)
                       ELSE acc.coordinates ],
         safety_score |->
            IF chain # << >>
            THEN Max(0, 1000000 - 1000 * final_node.uti_score)
            ELSE 0,
         distance_km |-> round2(acc.total_distance),
         estimated_time_minutes |-> estimated_time(acc.total_distance),
         threat_segments |-> acc.threat_segments,
         route_type |-> "graph_based",
         nodes_explored |-> Len(chain),
         algorithm_config |-> [ safety_weight |-> W, distance_weight |-> 10 - W ] ]

\* _reconstruct_enhanced_path(end_path, ...): pn is path_nodes, end_id the id
\* of end_path, hour what datetime.now().hour reads during the call
_reconstruct_enhanced_path(pn, end_id, W, hour) ==
    LET chain == ParentChain(pn, end_id)
        acc == ReconstructLoop([ coordinates |-> << >>, total_distance |-> 0,
                                 total_safety_cost |-> 0,
                                 threat_segments |-> << >> ], chain, 0, hour)
        final_node == nodes[chain[Len(chain)]]
    IN [ path |-> [ type |-> "LineString",
                    coordinates |->
                       IF chain # << >>
                       THEN Append(acc.coordinates, <<final_node.lng, final_node.lat>>)
                       ELSE acc.coordinates ],
         safety_score |->
            IF chain # << >>
            THEN Max(0, 1000000 - (50 * acc.total_safety_cost) \div Len(chain))
            ELSE 0,
         distance_km |-> round2(acc.total_distance),
         estimated_time_minutes |-> estimated_time(acc.total_distance),
         threat_segments |-> acc.threat_segments,
         route_type |-> "graph_based",
         nodes_explored |-> Len(chain),
         algorithm_config |-> [ safety_weight |-> W, distance_weight |-> 10 - W ] ]

----------------------------------------------------------------------------
(* ProductionSafetyAwareAStar: analysis of an OSRM polyline                *)

RECURSIVE SumSeq(_)
SumSeq(s) == IF s = << >> THEN 0 ELSE s[1] + SumSeq(Tail(s))

\* range(start, stop, step) for step > 0
range(start, stop, step) ==
    [ k \in 1 .. (IF stop > start THEN (stop - start + step - 1) \div step ELSE 0) |->
        start + (k - 1) * step ]

\* the loop body of _calculate_segment_uti for one point
PointUti(p, hour) ==
    LET distance_from_center == geodesic(p.lat, p.lng, 407589, -739851)
        base_uti == Min(700000, 150 * distance_from_center)
        located == IF p.lng < -740050 THEN base_uti + 200000
                   ELSE IF p.lng > -739400 THEN base_uti + 150000
                   ELSE base_uti
        timed == IF IsNight(hour) THEN located + 200000 ELSE located
    IN Min(900000, timed)

_calculate_segment_uti(segment_points, hour) ==
    IF segment_points = << >> THEN 0
    ELSE SumSeq([ k \in 1 .. Len(segment_points) |-> PointUti(segment_points[k], hour) ])
            \div Len(segment_points)

\* the segment starts when the loop is "range(0, len(route_points),
\* segment_size)"
SegmentStartsWhole(n, segment_size) == range(0, n, segment_size)

\* the segment starts of _analyze_route_safety:
\* range(0, len(route_points) - segment_size, segment_size)
SegmentStarts(n, segment_size) == range(0, n - segment_size, segment_size)

\* the windows of _analyze_route_safety over a polyline of n points:
\* segment_start and segment_end of every pass of its loop
SegmentWindows(n) ==
    LET segment_size == Max(1, n \div 10)
        starts == SegmentStarts(n, segment_size)
    IN [ k \in 1 .. Len(starts) |->
           [ segment_start |-> starts[k],
             segment_end |-> Min(starts[k] + segment_size, n - 1) ] ]

_analyze_route_safety(route_points, hour) ==
    LET windows == SegmentWindows(Len(route_points))
        Segment(w) ==
            LET segment_points == SubSeq(route_points, w.segment_start + 1,
                                         w.segment_end + 1)
                avg_uti == _calculate_segment_uti(segment_points, hour)
            IN [ start_idx |-> w.segment_start, end_idx |-> w.segment_end,
                 uti_score |-> avg_uti,
                 reason |-> _get_threat_reason(avg_uti, segment_points, hour),
                 mitigation |-> _get_mitigation_advice(avg_uti, segment_points, hour) ]
        segments == [ k \in 1 .. Len(windows) |-> Segment(windows[k]) ]
    IN SelectSeq(segments, LAMBDA s : s.uti_score > 400000)

\* _process_osrm_route up to the safety score: the path, the total distance
\* and the threat segments of the polyline
RouteAnalysis(osrm_route, hour) ==
    LET n == Len(osrm_route)
    IN [ coordinates |-> [ i \in 1 .. n |->
                             <<osrm_route[i].lng, osrm_route[i].lat>> ],
         total_distance |->
            SumSeq([ i \in 1 .. n - 1 |->
                       geodesic(osrm_route[i].lat, osrm_route[i].lng,
                                osrm_route[i + 1].lat, osrm_route[i + 1].lng) ]),
         threat_segments |-> _analyze_route_safety(osrm_route, hour) ]

\* _process_osrm_route from the safety score on; a is the RouteAnalysis
_process_osrm_route(a, W) ==
    LET avg_uti == SumSeq([ k \in 1 .. Len(a.threat_segments) |->
                              a.threat_segments[k].uti_score ])
                      \div Len(a.threat_segments)
    IN [ path |-> [ type |-> "LineString", coordinates |-> a.coordinates ],
         safety_score |-> IF a.threat_segments # << >>
                          THEN Max(100000, 1000000 - avg_uti)
                          ELSE 800000,
         distance_km |-> round2(a.total_distance),
         estimated_time_minutes |-> estimated_time(a.total_distance),
         threat_segments |-> a.threat_segments,
         route_type |-> "osrm_enhanced",
         algorithm_config |-> [ safety_weight |-> W, distance_weight |-> 10 - W,
                                routing_service |-> "OSRM" ] ]

----------------------------------------------------------------------------
(* Routing model: a built graph, update_uti_scores calls, graph searches   *)
(* find_path(start_coord, end_coord), a step of the model for every pass   *)
(* of the loop of _a_star_search, and analyses of OSRM polylines           *)

\* longest polyline OSRM hands back
MaxPolyline == 21

\* Midtown coordinates within 2 km of the next one, the fourth more than
\* 2 km from the second, and one coordinate more than 2 km from all of them
SearchPool ==
    << Coord(407400, -739900), Coord(407500, -739800), Coord(407400, -739700),
       Coord(407250, -739700), Coord(407700, -739950) >>

\* start_coord and end_coord of a request: near the first pool coordinate,
\* near the fourth and on the fifth
QueryCoords ==
    { Coord(407410, -739890), Coord(407260, -739700), Coord(407700, -739950) }

\* safety_weight in tenths: np.linspace(0.1, 0.9, 3) of get_alternative_routes
Weights == { 1, 5, 9 }

\* what datetime.now().hour reads during a call: a night and a day hour
Hours == { 3, 14 }

Polyline(start, step, n) ==
    [ k \in 1 .. n |->
        Coord(start.lat + (k - 1) * step.lat, start.lng + (k - 1) * step.lng) ]

\* decoded OSRM geometries: from the Manhattan centre of
\* _calculate_segment_uti westwards over the Hudson line -74.005, and shorter
\* ones from the East River side north-eastwards over the line -73.94
Polylines ==
    { Polyline(Coord(407589, -739851), Coord(0, -20), n) : n \in 1 .. MaxPolyline }
    \cup
    { Polyline(Coord(407300, -739500), Coord(10, 15), n) :
        n \in 1 .. MaxPolyline \div 2 }

Init ==
    \E coordinates \in CoordinateLists(SearchPool) :
    \E seed \in GraphSeeds :
        LET g == create_enhanced_graph(coordinates, 2000, seed)
        IN /\ nodes = g.nodes
           /\ edges = g.edges
           /\ uti_cache = EmptyCache
           /\ built = [ coordinates |-> coordinates, threshold |-> 2000,
                        seed |-> seed ]
           /\ build_i = Len(coordinates)
           /\ call = [ op |-> "create_enhanced_graph" ]
           /\ SearchIdle
           /\ EngineIdle(seed)

\* ProductionSafetyAwareAStar(graph, W).find_path(start_coord, end_coord) up
\* to the loop of _a_star_search
FindPath ==
    /\ pc = "idle"
    /\ \E start_coord \in QueryCoords, end_coord \in QueryCoords, W \in Weights :
         LET s == _find_nearest_node(nodes, start_coord)
             e == _find_nearest_node(nodes, end_coord)
             start_path == [ node |-> s, g_cost |-> 0,
                             h_cost |-> heuristic(nodes[s], nodes[e], W),
                             f_cost |-> 0 + heuristic(nodes[s], nodes[e], W),
                             parent |-> NoNode ]
             pn == [ id \in { s } |-> start_path ]
         IN /\ request' = [ op |-> "find_path", start_coord |-> start_coord,
                         end_coord |-> end_coord, safety_weight |-> W ]
            /\ IF s = NoNode \/ e = NoNode
               THEN /\ pc' = "done"
                    /\ UNCHANGED <<start_node, end_node, open_set, closed_set,
                                   path_nodes, nodes_explored, result>>
               ELSE /\ pc' = "searching"
                    /\ start_node' = s
                    /\ end_node' = e
                    /\ closed_set' = {}
                    /\ path_nodes' = pn
                    /\ open_set' = heappush(pn, << >>, s)
                    /\ nodes_explored' = 0
                    /\ UNCHANGED result
    /\ UNCHANGED <<nodes, edges, uti_cache, built, build_i, call>>
    /\ UNCHANGED engineVars

\* one pass of "while open_set and nodes_explored < max_explorations"
Expand ==
    /\ pc = "searching"
    /\ open_set # << >> /\ nodes_explored < max_explorations
    /\ LET popped == heappop(path_nodes, open_set)
           current == popped.item
       IN /\ nodes_explored' = nodes_explored + 1
          /\ IF current = end_node
             THEN /\ \E hour \in Hours :
                       result' = _reconstruct_enhanced_path(
                                     path_nodes, current, request.safety_weight, hour)
                  /\ pc' = "done"
                  /\ open_set' = popped.heap
                  /\ UNCHANGED <<closed_set, path_nodes>>
             ELSE LET closed == closed_set \cup { current }
                      st == RelaxLoop([ open_set |-> popped.heap,
                                        path_nodes |-> path_nodes ],
                                      closed, current, edges[current], 1,
                                      end_node, request.safety_weight)
                  IN /\ closed_set' = closed
                     /\ open_set' = st.open_set
                     /\ path_nodes' = st.path_nodes
                     /\ UNCHANGED <<pc, result>>
    /\ UNCHANGED <<nodes, edges, uti_cache, built, build_i, call, request,
                   start_node, end_node>>
    /\ UNCHANGED engineVars

\* the loop has ended and the search hands back the path to the node it
\* expanded last
NoPathPartial ==
    /\ pc = "searching"
    /\ ~ (open_set # << >> /\ nodes_explored < max_explorations)
    /\ \E hour \in Hours, last \in closed_set :
         result' = _reconstruct_enhanced_path(path_nodes, last,
                                              request.safety_weight, hour)
    /\ pc' = "done"
    /\ UNCHANGED <<nodes, edges, uti_cache, built, build_i, call, request,
                   start_node, end_node, open_set, closed_set, path_nodes, nodes_explored>>
    /\ UNCHANGED engineVars

\* the end of the loop as the one that clears the scores of the nodes before
\* it returns None
NoPathClearingScores ==
    /\ pc = "searching"
    /\ ~ (open_set # << >> /\ nodes_explored < max_explorations)
    /\ result' = None
    /\ pc' = "done"
    /\ nodes' = [ id \in DOMAIN nodes |-> [nodes[id] EXCEPT !.uti_score = 0] ]
    /\ UNCHANGED <<edges, uti_cache, built, build_i, call, request,
                   start_node, end_node, open_set, closed_set, path_nodes, nodes_explored>>
    /\ UNCHANGED engineVars

\* the loop has ended: "No path found", return None
NoPath ==
    /\ pc = "searching"
    /\ ~ (open_set # << >> /\ nodes_explored < max_explorations)
    /\ result' = None
    /\ pc' = "done"
    /\ UNCHANGED <<nodes, edges, uti_cache, built, build_i, call, request,
                   start_node, end_node, open_set, closed_set, path_nodes, nodes_explored>>
    /\ UNCHANGED engineVars

\* find_enhanced_path when OSRM has handed back a route:
\* ProductionSafetyAwareAStar(graph, W)._process_osrm_route(osrm_route, ...)
ProcessOsrmRoute ==
    /\ pc = "idle"
    /\ \E osrm_route \in Polylines, hour \in Hours :
         LET a == RouteAnalysis(osrm_route, hour)
         IN \E W \in Weights :
              /\ request' = [ op |-> "_process_osrm_route",
                              osrm_route |-> osrm_route, safety_weight |-> W ]
              /\ result' = _process_osrm_route(a, W)
    /\ pc' = "done"
    /\ UNCHANGED <<nodes, edges, uti_cache, built, build_i, call, start_node,
                   end_node, open_set, closed_set, path_nodes, nodes_explored>>
    /\ UNCHANGED engineVars

\* the caller has taken the result; the locals of the call are gone
Return ==
    /\ pc = "done"
    /\ pc' = "idle"
    /\ request' = NoRequest
    /\ start_node' = NoSearch.start_node
    /\ end_node' = NoSearch.end_node
    /\ open_set' = NoSearch.open_set
    /\ closed_set' = NoSearch.closed_set
    /\ path_nodes' = NoSearch.path_nodes
    /\ nodes_explored' = NoSearch.nodes_explored
    /\ result' = None
    /\ UNCHANGED <<nodes, edges, uti_cache, built, build_i, call>>
    /\ alternatives' = << >>
    /\ UNCHANGED <<is_loaded, hash_seed, osrm_cache>>

Next ==
    \/ UpdateUti
    \/ FindPath
    \/ Expand
    \/ NoPath
    \/ ProcessOsrmRoute
    \/ Return

Spec == Init /\ [][Next]_vars

----------------------------------------------------------------------------
(* Properties of the graph search and of the routes *)

\* the terminal outcomes of a search that has returned
GoalReached ==
    /\ result # None
    /\ result.route_type = "graph_based"
    /\ end_node \in DOMAIN path_nodes
    /\ end_node \notin closed_set
    /\ ~ InList(end_node, open_set)

OpenSetEmpty ==
    result = None /\ open_set = << >> /\ nodes_explored < max_explorations

CapHit ==
    result = None /\ nodes_explored = max_explorations

\* the expansions made, the outcome and the result of a search
SearchOutcome ==
    request.op = "find_path" =>
       /\ nodes_explored <= max_explorations
       /\ nodes_explored <= Cardinality(DOMAIN nodes)
       /\ pc = "searching" => result = None
       /\ pc = "done" =>
            Cardinality({ o \in { "goal", "empty", "cap" } :
                            \/ o = "goal" /\ GoalReached
                            \/ o = "empty" /\ OpenSetEmpty
                            \/ o = "cap" /\ CapHit }) = 1

\* a step of a running search: it is a pass of the loop, which counts as one
\* expansion, and the search goes on or has returned
SearchStep ==
    pc = "searching" =>
       /\ pc' \in { "searching", "done" }
       /\ nodes_explored' <= nodes_explored + 1
       /\ pc' = "searching" => nodes_explored' = nodes_explored + 1

EdgeDistance(a, b) ==
    edges[a][CHOOSE k \in 1 .. Len(edges[a]) : edges[a][k].to_node = b].distance_km

\* id is a node no farther from coord than any other node
IsNearest(id, coord) ==
    \A other \in DOMAIN nodes :
        geodesic(coord.lat, coord.lng, nodes[id].lat, nodes[id].lng)
          <= geodesic(coord.lat, coord.lng, nodes[other].lat, nodes[other].lng)

\* C9. A successful graph-based route is a feasible walk: its path starts at
\* the node nearest the start coordinate and ends at the node nearest the end
\* coordinate, every two consecutive path points are joined by an edge of the
\* graph, the path has exactly one point per node on the parent chain, and
\* distance_km is the sum of the distance_km of the traversed edges, rounded
\* to 2 decimals.
C9_FeasibleWalk ==
    (pc = "done" /\ request.op = "find_path" /\ result # None) =>
        LET chain == ParentChain(path_nodes, end_node)
            points == result.path.coordinates
            walked == SumSeq([ k \in 1 .. Len(chain) - 1 |->
                                 EdgeDistance(chain[k], chain[k + 1]) ])
        IN /\ Len(points) = Len(chain)
           /\ \A k \in 1 .. Len(chain) :
                points[k] = <<nodes[chain[k]].lng, nodes[chain[k]].lat>>
           /\ IsNearest(chain[1], request.start_coord)
           /\ IsNearest(chain[Len(chain)], request.end_coord)
           /\ \A k \in 1 .. Len(chain) - 1 :
                \E m \in 1 .. Len(edges[chain[k]]) :
                    edges[chain[k]][m].to_node = chain[k + 1]
           /\ Abs(10 * result.distance_km - walked) <= 5

\* a route over two edges or more, from a start coordinate that is not on a
\* node, whose length is well above the straight-line distance of its ends
C9_Witness ==
    /\ pc = "done"
    /\ request.op = "find_path"
    /\ result # None
    /\ Len(result.path.coordinates) >= 3
    /\ \A id \in DOMAIN nodes :
         request.start_coord # Coord(nodes[id].lat, nodes[id].lng)
    /\ 10 * result.distance_km >
          100 + geodesic(nodes[start_node].lat, nodes[start_node].lng,
                         nodes[end_node].lat, nodes[end_node].lng)

\* C10. Threat-segment indices: in every route result, of the graph search
\* or of the polyline analysis, each threat segment has
\* 0 <= start_idx < end_idx < |path|, the segments come in increasing
\* start_idx order, and of two consecutive segments the earlier one's end_idx
\* is not greater than the later one's start_idx.
C10_SegmentIndices ==
    (pc = "done" /\ result # None) =>
        LET segs == result.threat_segments
            n == Len(result.path.coordinates)
        IN /\ \A k \in 1 .. Len(segs) :
                /\ 0 <= segs[k].start_idx
                /\ segs[k].start_idx < segs[k].end_idx
                /\ segs[k].end_idx < n
           /\ \A k \in 1 .. Len(segs) - 1 :
                /\ segs[k].start_idx < segs[k + 1].start_idx
                /\ segs[k].end_idx <= segs[k + 1].start_idx

\* the analysis of a polyline of 20 points or more has found threat segments
\* two indices long, the last of them ending on the last point, and has left
\* the first segment of the polyline out
C10_Witness ==
    /\ pc = "done"
    /\ request.op = "_process_osrm_route"
    /\ Len(result.path.coordinates) >= 20
    /\ Len(result.threat_segments) >= 2
    /\ result.threat_segments[1].start_idx > 0
    /\ \E k \in 1 .. Len(result.threat_segments) :
         /\ result.threat_segments[k].end_idx
              = result.threat_segments[k].start_idx + 2
         /\ result.threat_segments[k].end_idx
              = Len(result.path.coordinates) - 1

\* a route of the graph search with two threat segments or more
GraphRouteWithThreats ==
    /\ pc = "done"
    /\ request.op = "find_path"
    /\ result # None
    /\ Len(result.threat_segments) >= 2

----------------------------------------------------------------------------
(* Properties of the route results *)

\* C11 as claimed. Every route result, of the graph search
\* (safety_score = max(0, 1 - S/k) for k path nodes and summed edge safety
\* cost S) or of the polyline analysis, has 0 <= safety_score <= 1, after any
\* graph build and any sequence of update_uti_scores calls.
C11_SafetyScoreBounds ==
    (pc = "done" /\ result # None) =>
        0 <= result.safety_score /\ result.safety_score <= 1000000

\* a route of the graph search over an edge whose safety cost is negative
C11_NegativeCost ==
    /\ pc = "done"
    /\ request.op = "find_path"
    /\ result # None
    /\ \E k \in 1 .. Len(ParentChain(path_nodes, end_node)) - 1 :
         get_safety_cost(FirstEdgeTo(ParentChain(path_nodes, end_node)[k],
                                     ParentChain(path_nodes, end_node)[k + 1])) < 0

\* C12 as claimed. The polyline analysis partitions the whole polyline: for
\* every polyline of n >= 2 points the windows of size max(1, floor(n/10))
\* are contiguous (each starts where the previous one ended) and every point
\* index 0 .. n-1 lies in at least one window.
C12_WindowsCoverPolyline ==
    ( /\ pc = "done"
      /\ request.op = "_process_osrm_route"
      /\ Len(request.osrm_route) >= 2 ) =>
        LET n == Len(request.osrm_route)
            w == SegmentWindows(n)
        IN /\ \A k \in 1 .. Len(w) - 1 :
                w[k + 1].segment_start = w[k].segment_end
           /\ \A idx \in 0 .. n - 1 :
                \E k \in 1 .. Len(w) :
                    w[k].segment_start <= idx /\ idx <= w[k].segment_end

\* the windows of every analysed polyline are contiguous, and they cover the
\* points of every polyline of 2 to 19 points
C12_ContiguousWindows ==
    (pc = "done" /\ request.op = "_process_osrm_route") =>
        LET n == Len(request.osrm_route)
            w == SegmentWindows(n)
        IN /\ \A k \in 1 .. Len(w) - 1 :
                w[k + 1].segment_start = w[k].segment_end
           /\ (2 <= n /\ n <= 19) =>
                \A idx \in 0 .. n - 1 :
                   \E k \in 1 .. Len(w) :
                       w[k].segment_start <= idx /\ idx <= w[k].segment_end

\* the route _a_star_search hands back for the search of this state when the
\* clock reads hour during the call
RouteAt(hour) ==
    _reconstruct_enhanced_path(path_nodes, end_node, request.safety_weight, hour)

\* a threat segment without its texts
Indices(seg) ==
    [ start_idx |-> seg.start_idx, end_idx |-> seg.end_idx,
      uti_score |-> seg.uti_score ]

\* C13 as claimed. Route determinism: two route calls with the identical
\* graph, start, end and safety weight and identical update_uti_scores input
\* return identical results (path, safety_score, distance_km,
\* estimated_time_minutes and every threat segment's indices, uti_score,
\* reason and mitigation), whatever the wall-clock time of each call: the
\* route returned is the route of the same search at every other hour.
C13_RouteDeterminism ==
    (pc = "done" /\ request.op = "find_path" /\ result # None) =>
        \A hour \in Hours : result = RouteAt(hour)

\* what is the same at every hour: all of the route but the reason and the
\* mitigation of its threat segments
C13_SameButTexts ==
    (pc = "done" /\ request.op = "find_path" /\ result # None) =>
        \A hour \in Hours :
            LET other == RouteAt(hour)
            IN /\ [result EXCEPT !.threat_segments = << >>]
                    = [other EXCEPT !.threat_segments = << >>]
               /\ Len(result.threat_segments) = Len(other.threat_segments)
               /\ \A k \in 1 .. Len(result.threat_segments) :
                    Indices(result.threat_segments[k])
                      = Indices(other.threat_segments[k])

----------------------------------------------------------------------------
(* ProductionSTGCNModel (project/backend/ml_core/stgcn_model.py)           *)
(* A timestamp is a record of its hour, weekday (Monday = 0) and day of    *)
(* the year.  Features have unit 1/1000, the base score 1/100000, the      *)
(* factors 1/10 and the UTI score of predict_uti_score 1e-7.               *)

\* x / d rounded to the nearest integer, a tie to the even one
RoundDiv(x, d) ==
    LET a == Abs(x)
        q == a \div d
        r == a % d
        m == IF 2 * r < d THEN q
             ELSE IF 2 * r > d THEN q + 1
             ELSE IF q % 2 = 0 THEN q ELSE q + 1
    IN IF x < 0 THEN -m ELSE m

\* f"{v:.3f}" and f"{v:.2f}" of a coordinate: the digits kept, as an integer
Fmt3(v) == RoundDiv(v, 10)
Fmt2(v) == RoundDiv(v, 100)

\* hash(f"{lat},{lng}") of the two formatted coordinates: a str hash, fixed
\* within a process and different from one process (hash seed) to the next
StrHash(lat, lng, seed) ==
    7 * lat + 13 * lng + 31 * seed + 17 * seed * (lat + lng)

\* ((lat - center_lat) ** 2 + (lng - center_lng) ** 2) ** 0.5, in 1e-4 degree
CenterDistance(lat, lng) ==
    ISqrt((lat - 407589) * (lat - 407589) + (lng + 739851) * (lng + 739851))

_get_historical_crime_rate(lat, lng, seed) ==
    LET distance == CenterDistance(lat, lng)
        base_rate == Min(1000, distance)
        coord_hash == StrHash(Fmt3(lat), Fmt3(lng), seed) % 100
        variation == 5 * coord_hash
    IN Min(1000, base_rate + variation)

\* np.sin(2 * np.pi * day_of_year / 365), unit 1/1000, by the rational
\* approximation 16 u (1 - u) / (5 - 4 u (1 - u)) of the sine of a half turn u
SinTurn(day_of_year) ==
    LET x == (2 * day_of_year) % 730
        half == IF x <= 365 THEN x ELSE x - 365
        p == half * (365 - half)
        s == (16000 * p) \div (5 * 133225 - 4 * p)
    IN IF x <= 365 THEN s ELSE -s

_get_weather_factor(timestamp) ==
    500 + (3 * SinTurn(timestamp.yday)) \div 10

_get_foot_traffic_density(lat, lng, timestamp) ==
    LET hour == timestamp.hour
        base_traffic ==
            IF (7 <= hour /\ hour <= 9) \/ (17 <= hour /\ hour <= 19) THEN 800
            ELSE IF 10 <= hour /\ hour <= 16 THEN 600
            ELSE IF 20 <= hour /\ hour <= 22 THEN 400
            ELSE 100
        location_factor == Max(100, 1000 - CenterDistance(lat, lng) \div 2)
    IN Min(1000, (base_traffic * location_factor) \div 1000)

_get_lighting_quality(lat, lng, timestamp, seed) ==
    IF 6 <= timestamp.hour /\ timestamp.hour <= 18 THEN 1000
    ELSE 300 + 5 * (StrHash(Fmt3(lat), Fmt3(lng), seed) % 100)

_get_transit_distance(lat, lng, seed) ==
    10 * (StrHash(Fmt2(lat), Fmt2(lng), seed) % 100)

_get_socioeconomic_index(lat, lng, seed) ==
    LET base_index == Max(200, 1000 - (3 * CenterDistance(lat, lng)) \div 10)
        variation == 10 * (StrHash(Fmt2(lat), Fmt2(lng), seed) % 50)
    IN Min(1000, base_index + variation)

_get_event_density(lat, lng, timestamp, seed) ==
    LET base_density == 10 * (StrHash(Fmt2(lat), Fmt2(lng), seed) % 30)
    IN IF timestamp.weekday >= 5
       THEN Min(1000, (15 * base_density) \div 10)
       ELSE Min(1000, base_density)

_get_police_presence(lat, lng, timestamp) ==
    LET time_factor == IF 8 <= timestamp.hour /\ timestamp.hour <= 20
                       THEN 800 ELSE 400
        location_factor == Max(300, 1000 - CenterDistance(lat, lng) \div 5)
    IN Min(1000, (time_factor * location_factor) \div 1000)

\* generate_features: the feature vector, in the order of feature_names
generate_features(lat, lng, timestamp, seed) ==
    << _get_historical_crime_rate(lat, lng, seed),
       (1000 * timestamp.hour) \div 24,
       (1000 * timestamp.weekday) \div 6,
       _get_weather_factor(timestamp),
       _get_foot_traffic_density(lat, lng, timestamp),
       _get_lighting_quality(lat, lng, timestamp, seed),
       _get_transit_distance(lat, lng, seed),
       _get_socioeconomic_index(lat, lng, seed),
       _get_event_density(lat, lng, timestamp, seed),
       _get_police_presence(lat, lng, timestamp) >>

\* _calculate_base_uti_score: the weights are in hundredths
_calculate_base_uti_score(features) ==
    LET weights == << 30, 20, 10, 5, 15, 10, 5, 3, 1, 1 >>
        base_score == SumSeq([ k \in 1 .. 10 |-> features[k] * weights[k] ])
    IN Min(100000, Max(0, base_score))

_get_temporal_factor(timestamp) ==
    LET hour == timestamp.hour
    IN IF 22 <= hour \/ hour <= 5 THEN 14
       ELSE IF 18 <= hour /\ hour <= 21 THEN 12
       ELSE IF 6 <= hour /\ hour <= 8 THEN 11
       ELSE 10

_get_spatial_factor(lat, lng) ==
    LET d2 == (lat - 407589) * (lat - 407589) + (lng + 739851) * (lng + 739851)
    IN IF d2 > 1000 * 1000 THEN 13
       ELSE IF d2 > 500 * 500 THEN 11
       ELSE 10

\* predict_uti_score of a loaded model, in a process with the given hash seed
predict_uti_score(lat, lng, timestamp, seed) ==
    LET features == generate_features(lat, lng, timestamp, seed)
        base_score == _calculate_base_uti_score(features)
        temporal_factor == _get_temporal_factor(timestamp)
        spatial_factor == _get_spatial_factor(lat, lng)
    IN Min(10000000, base_score * temporal_factor * spatial_factor)

----------------------------------------------------------------------------
(* UTI model: the prediction engine of a process, initialize_model and     *)
(* predict_uti_score calls                                                 *)

\* self.graph = None: no graph has been built
NoGraph == [ op |-> "None" ]

GraphIsNone ==
    /\ nodes = [ id \in {} |-> 0 ]
    /\ edges = [ id \in {} |-> << >> ]
    /\ uti_cache = EmptyCache
    /\ built = NoGraph
    /\ build_i = 0
    /\ call = [ op |-> "None" ]

\* the str hash seeds of the processes that run the engine
HashSeeds == { 0, 1, 2 }

\* (lat, lng) arguments: the centre of _get_spatial_factor, two Midtown
\* points and a point more than 0.1 degree from the centre
UtiCoords ==
    { Coord(407589, -739851), Coord(407400, -739900),
      Coord(407256, -739704), Coord(406500, -740200) }

\* timestamp arguments: a night, a day and an evening hour, a Wednesday and
\* a Sunday, in January and in July
Timestamps ==
    { [ hour |-> h, weekday |-> w, yday |-> d ] :
        h \in { 3, 14, 20 }, w \in { 2, 6 }, d \in { 15, 200 } }

InitUti ==
    \E seed \in HashSeeds :
        /\ GraphIsNone
        /\ SearchIdle
        /\ EngineIdle(seed)

\* prediction_engine.initialize_model()
InitializeModel ==
    /\ pc = "idle"
    /\ is_loaded' = TRUE
    /\ UNCHANGED <<nodes, edges, uti_cache, built, build_i, call>>
    /\ UNCHANGED searchVars
    /\ UNCHANGED <<alternatives, hash_seed, osrm_cache>>

\* prediction_engine.predict_uti_score(lat, lng, timestamp)
PredictUti ==
    /\ pc = "idle"
    /\ \E c \in UtiCoords, timestamp \in Timestamps :
         /\ request' = [ op |-> "predict_uti_score", lat |-> c.lat,
                         lng |-> c.lng, timestamp |-> timestamp ]
         /\ result' = IF is_loaded
                      THEN [ uti_score |->
                               predict_uti_score(c.lat, c.lng, timestamp, hash_seed) ]
                      ELSE [ error |-> "RuntimeError" ]
    /\ pc' = "done"
    /\ UNCHANGED <<nodes, edges, uti_cache, built, build_i, call, start_node,
                   end_node, open_set, closed_set, path_nodes, nodes_explored>>
    /\ UNCHANGED engineVars

NextUti ==
    \/ InitializeModel
    \/ PredictUti
    \/ Return

SpecUti == InitUti /\ [][NextUti]_vars

\* C14 as claimed. The UTI field is a pure deterministic function:
\* predict_uti_score(lat, lng, t) on a loaded model returns the same value on
\* every call, in every process and on every machine, for the same
\* arguments; its result depends on nothing but (lat, lng, t) (no clock
\* read, no per-process hash seed), and it lies in [0,1].
C14_UtiDeterministic ==
    (pc = "done" /\ request.op = "predict_uti_score" /\ is_loaded) =>
        /\ 0 <= result.uti_score /\ result.uti_score <= 10000000
        /\ \A seed \in HashSeeds :
             result.uti_score
               = predict_uti_score(request.lat, request.lng, request.timestamp, seed)

\* the score of a loaded model lies in [0,1]
C14_UtiInRange ==
    (pc = "done" /\ request.op = "predict_uti_score" /\ is_loaded) =>
        0 <= result.uti_score /\ result.uti_score <= 10000000

\* a loaded model has returned a score strictly between 0 and 1
C14_Scored ==
    /\ pc = "done" /\ request.op = "predict_uti_score" /\ is_loaded
    /\ 0 < result.uti_score /\ result.uti_score < 10000000

----------------------------------------------------------------------------
(* EnhancedRouteOptimizer: calculate_safe_route and get_alternative_routes *)
(* as whole calls                                                          *)

\* one pass of the loop of _a_star_search on the locals st; found is set when
\* the pass has popped the goal
SearchPass(st, goal, W) ==
    LET popped == heappop(st.path_nodes, st.open_set)
        current == popped.item
    IN IF current = goal
       THEN [ st EXCEPT !.open_set = popped.heap,
                        !.nodes_explored = st.nodes_explored + 1,
                        !.found = TRUE ]
       ELSE LET closed == st.closed_set \cup { current }
                relaxed == RelaxLoop([ open_set |-> popped.heap,
                                       path_nodes |-> st.path_nodes ],
                                     closed, current, edges[current], 1, goal, W)
            IN [ open_set |-> relaxed.open_set,
                 closed_set |-> closed,
                 path_nodes |-> relaxed.path_nodes,
                 nodes_explored |-> st.nodes_explored + 1,
                 found |-> FALSE ]

RECURSIVE SearchLoop(_, _, _)
\* "while open_set and nodes_explored < max_explorations", to its end
SearchLoop(st, goal, W) ==
    IF st.found \/ st.open_set = << >> \/ st.nodes_explored >= max_explorations
    THEN st
    ELSE LET next == SearchPass(st, goal, W)
         IN After(next.path_nodes, SearchLoop(next, goal, W))

\* _a_star_search(start_node, end_node) of a searcher with weight W, when the
\* clock reads hour
_a_star_search(s, e, W, hour) ==
    LET h == heuristic(nodes[s], nodes[e], W)
        start_path == [ node |-> s, g_cost |-> 0, h_cost |-> h,
                        f_cost |-> 0 + h, parent |-> NoNode ]
        pn == [ id \in { s } |-> start_path ]
        final == SearchLoop([ open_set |-> heappush(pn, << >>, s),
                              closed_set |-> {}, path_nodes |-> pn,
                              nodes_explored |-> 0, found |-> FALSE ], e, W)
    IN IF final.found
       THEN _reconstruct_enhanced_path(final.path_nodes, e, W, hour)
       ELSE None

find_path(start_coord, end_coord, W, hour) ==
    LET s == _find_nearest_node(nodes, start_coord)
        e == _find_nearest_node(nodes, end_coord)
    IN IF s = NoNode \/ e = NoNode THEN None
       ELSE _a_star_search(s, e, W, hour)

\* f"{start[0]:.4f},{start[1]:.4f}_{end[0]:.4f},{end[1]:.4f}": the
\* coordinates of the model carry four decimals, the key keeps all of them
cache_key(start, end) == << start.lat, start.lng, end.lat, end.lng >>

\* what the call of the provider does: requests.get raises (no connection),
\* raises after the timeout of 5 s, the answer is no JSON (response.json()
\* raises), the answer has no 'routes', or it has a route
ProviderFailures ==
    { [ kind |-> "raises" ], [ kind |-> "timeout" ], [ kind |-> "no_json" ],
      [ kind |-> "no_routes" ] }

ProviderRoute(route_points) == [ kind |-> "route", route_points |-> route_points ]

\* get_osrm_route as the one that also stores the None of a failed call
get_osrm_route_caching_none(cache, start, end, answer) ==
    LET key == cache_key(start, end)
        route_points == IF answer.kind = "route" THEN answer.route_points
                        ELSE << >>
    IN IF key \in DOMAIN cache
       THEN [ route |-> cache[key], cache |-> cache, asked |-> FALSE ]
       ELSE [ route |-> route_points,
              cache |-> [ k \in DOMAIN cache \cup { key } |->
                            IF k = key THEN route_points ELSE cache[k] ],
              asked |-> TRUE ]

\* graph.get_osrm_route(start, end) with the cache as it is and the provider
\* doing answer: the route handed back (<< >> for None), the cache afterwards,
\* and whether the provider was asked.  "except Exception" takes every
\* failure; only a route is stored
get_osrm_route(cache, start, end, answer) ==
    LET key == cache_key(start, end)
    IN IF key \in DOMAIN cache
       THEN [ route |-> cache[key], cache |-> cache, asked |-> FALSE ]
       ELSE IF answer.kind = "route"
       THEN [ route |-> answer.route_points,
              cache |-> [ k \in DOMAIN cache \cup { key } |->
                            IF k = key THEN answer.route_points ELSE cache[k] ],
              asked |-> TRUE ]
       ELSE [ route |-> << >>, cache |-> cache, asked |-> TRUE ]

\* find_enhanced_path: osrm_route is what get_osrm_route handed back, << >>
\* for None
find_enhanced_path(start_coord, end_coord, W, osrm_route, hour) ==
    IF osrm_route # << >>
    THEN _process_osrm_route(RouteAnalysis(osrm_route, hour), W)
    ELSE find_path(start_coord, end_coord, W, hour)

\* calculate_safe_route without uti_predictions.  loop_running: the caller
\* runs inside an asyncio event loop, so loop.run_until_complete raises
\* RuntimeError, which "except Exception" turns into None
calculate_safe_route(start_coord, end_coord, W, osrm_route, hour, loop_running) ==
    IF built = NoGraph THEN None
    ELSE IF loop_running THEN None
    ELSE find_enhanced_path(start_coord, end_coord, W, osrm_route, hour)

\* np.linspace(0.1, 0.9, num_alternatives), in tenths
SafetyWeights(num_alternatives) ==
    [ i \in 1 .. num_alternatives |->
        IF num_alternatives = 1 THEN 1
        ELSE Linspace(1, 9, num_alternatives, i - 1) ]

_classify_enhanced_route_type(safety_weight) ==
    IF safety_weight < 3 THEN "fastest_route"
    ELSE IF safety_weight > 7 THEN "safest_route"
    ELSE "balanced_route"

_get_optimization_focus(safety_weight) ==
    IF safety_weight < 3 THEN "Optimized for speed and efficiency"
    ELSE IF safety_weight > 7 THEN "Optimized for maximum safety"
    ELSE "Balanced optimization for safety and efficiency"

\* the sort key r['safety_score'] * 0.6 + (1.0 / (r['distance_km'] + 1)) * 0.4,
\* unit 1e-6, each term rounded down
combined_score(r) ==
    (6 * r.safety_score) \div 10 + 40000000 \div (r.distance_km + 100)

RECURSIVE InsertAscending(_, _)
\* r put into the list sorted by rising key, before the first route whose
\* key is not smaller
InsertAscending(sorted, r) ==
    IF sorted = << >> THEN << r >>
    ELSE IF combined_score(sorted[1]) >= combined_score(r)
    THEN << r >> \o sorted
    ELSE << sorted[1] >> \o InsertAscending(Tail(sorted), r)

RECURSIVE InsertDescending(_, _)
\* r put into the sorted list behind every route whose key is not smaller:
\* list.sort(key=..., reverse=True) keeps routes of equal key in their order
InsertDescending(sorted, r) ==
    IF sorted = << >> THEN << r >>
    ELSE IF combined_score(sorted[1]) >= combined_score(r)
    THEN << sorted[1] >> \o InsertDescending(Tail(sorted), r)
    ELSE << r >> \o sorted

RECURSIVE SortAlternatives(_)
\* alternatives.sort(key=..., reverse=True)
SortAlternatives(list) ==
    IF list = << >> THEN << >>
    ELSE InsertDescending(SortAlternatives(SubSeq(list, 1, Len(list) - 1)),
                          list[Len(list)])

RECURSIVE AlternativesLoop(_, _, _, _, _, _, _, _)
\* "for weight in safety_weights", from the i-th weight on; osrm[i] is what
\* OSRM hands back during the i-th call
AlternativesLoop(list, weights, i, start_coord, end_coord, osrm, hour, loop_running) ==
    IF i > Len(weights) THEN list
    ELSE LET weight == weights[i]
             route == calculate_safe_route(start_coord, end_coord, weight,
                                           osrm[i], hour, loop_running)
             tagged == [route EXCEPT
                          !.route_type = _classify_enhanced_route_type(weight)]
                       @@ [ optimization_focus |-> _get_optimization_focus(weight) ]
         IN AlternativesLoop(IF route # None THEN Append(list, tagged) ELSE list,
                             weights, i + 1, start_coord, end_coord, osrm,
                             hour, loop_running)

get_alternative_routes(start_coord, end_coord, num_alternatives, osrm, hour, loop_running) ==
    SortAlternatives(
        AlternativesLoop(<< >>, SafetyWeights(num_alternatives), 1,
                         start_coord, end_coord, osrm, hour, loop_running))

\* start_coord and end_coord of the calls on the optimizer
RouteRequests ==
    { << Coord(407410, -739890), Coord(407260, -739700) >>,
      << Coord(407260, -739700), Coord(407410, -739890) >>,
      << Coord(407410, -739890), Coord(407700, -739950) >> }

\* num_alternatives of a get_alternative_routes call
AlternativeCounts == { 1, 2, 3 }

\* the geometry OSRM hands back when it answers
OsrmAnswers == { Polyline(Coord(407589, -739851), Coord(0, -20), 6) }

\* route_optimizer.get_alternative_routes(start_coord, end_coord,
\* num_alternatives).  OSRM answers none of the calculate_safe_route calls,
\* or all of them from some call on (the graph caches its answer); a route
\* cached by an earlier request is handed back to every call.
GetAlternativeRoutes ==
    /\ pc = "idle"
    /\ \E r \in RouteRequests,
          num_alternatives \in AlternativeCounts, hour \in Hours,
          loop_running \in BOOLEAN, osrm_route \in OsrmAnswers :
       \E first_answer \in 1 .. num_alternatives + 1 :
         LET start_coord == r[1]
             end_coord == r[2]
             key == cache_key(start_coord, end_coord)
             cached == key \in DOMAIN osrm_cache
             osrm == [ i \in 1 .. num_alternatives |->
                         IF cached THEN osrm_cache[key]
                         ELSE IF i >= first_answer THEN osrm_route ELSE << >> ]
         IN /\ (loop_running => first_answer = num_alternatives + 1)
            /\ osrm_cache' =
                 IF built # NoGraph /\ ~ loop_running /\ ~ cached
                    /\ first_answer <= num_alternatives
                 THEN get_osrm_route(osrm_cache, start_coord, end_coord,
                                     ProviderRoute(osrm_route)).cache
                 ELSE osrm_cache
            /\ request' = [ op |-> "get_alternative_routes",
                            start_coord |-> start_coord, end_coord |-> end_coord,
                            num_alternatives |-> num_alternatives,
                            osrm |-> osrm, loop_running |-> loop_running ]
            /\ alternatives' = get_alternative_routes(start_coord, end_coord,
                                   num_alternatives, osrm, hour, loop_running)
    /\ pc' = "done"
    /\ UNCHANGED <<nodes, edges, uti_cache, built, build_i, call, start_node,
                   end_node, open_set, closed_set, path_nodes, nodes_explored,
                   result>>
    /\ UNCHANGED <<is_loaded, hash_seed>>

\* uti_predictions of a calculate_safe_route call: none, or a score for
\* node_0
RoutePredictions ==
    { EmptyCache } \cup { [ id \in { NodeId(0) } |-> s ] : s \in Scores }

\* EnhancedRouteOptimizer(): no graph yet
InitOptimizer ==
    \E seed \in GraphSeeds :
        /\ GraphIsNone
        /\ SearchIdle
        /\ EngineIdle(seed)

\* route_optimizer.initialize_graph(area_bounds): the first build
InitializeGraph ==
    /\ pc = "idle"
    /\ built = NoGraph
    /\ \E coordinates \in CoordinateLists(SearchPool) :
         LET g == create_enhanced_graph(coordinates, 2000, hash_seed)
         IN /\ nodes' = g.nodes
            /\ edges' = g.edges
            /\ built' = [ coordinates |-> coordinates, threshold |-> 2000,
                          seed |-> hash_seed ]
            /\ build_i' = Len(coordinates)
    /\ uti_cache' = EmptyCache
    /\ call' = [ op |-> "create_enhanced_graph" ]
    /\ UNCHANGED searchVars
    /\ UNCHANGED engineVars

\* route_optimizer.calculate_safe_route(start_coord, end_coord,
\* safety_weight, uti_predictions) up to the routing: without a graph it
\* returns None at once; with one it applies the predictions, if any
CalculateSafeRoute ==
    /\ pc = "idle"
    /\ \E r \in RouteRequests, W \in Weights, uti_predictions \in RoutePredictions,
          osrm_route \in OsrmAnswers \cup { << >> }, loop_running \in BOOLEAN :
         /\ (loop_running => osrm_route = << >>)
         /\ request' = [ op |-> "calculate_safe_route", start_coord |-> r[1],
                         end_coord |-> r[2], safety_weight |-> W,
                         uti_predictions |-> uti_predictions,
                         osrm_route |-> osrm_route,
                         loop_running |-> loop_running ]
         /\ IF built = NoGraph
            THEN /\ pc' = "done"
                 /\ UNCHANGED <<nodes, edges, uti_cache, call>>
            ELSE /\ pc' = "routing"
                 /\ IF uti_predictions # EmptyCache
                    THEN /\ update_uti_scores(uti_predictions)
                         /\ call' = [ op |-> "update_uti_scores" ]
                    ELSE UNCHANGED <<nodes, edges, uti_cache, call>>
    /\ result' = None
    /\ UNCHANGED <<built, build_i>>
    /\ UNCHANGED <<start_node, end_node, open_set, closed_set, path_nodes,
                   nodes_explored>>
    /\ UNCHANGED engineVars

\* calculate_safe_route from "self.sa_astar = ..." on: the routing on the
\* graph as it is now, and the return of the route or of None.
\* request.osrm_route is what the provider answers if it is asked
RouteOnGraph ==
    /\ pc = "routing"
    /\ \E hour \in Hours :
         LET got == get_osrm_route(osrm_cache, request.start_coord,
                        request.end_coord,
                        IF request.osrm_route = << >>
                        THEN [ kind |-> "no_routes" ]
                        ELSE ProviderRoute(request.osrm_route))
         IN /\ result' = calculate_safe_route(request.start_coord,
                              request.end_coord, request.safety_weight,
                              got.route, hour, request.loop_running)
            /\ osrm_cache' = IF request.loop_running THEN osrm_cache
                             ELSE got.cache
    /\ pc' = "done"
    /\ UNCHANGED <<nodes, edges, uti_cache, built, build_i, call, request,
                   start_node, end_node, open_set, closed_set, path_nodes,
                   nodes_explored>>
    /\ UNCHANGED <<alternatives, is_loaded, hash_seed>>

NextOptimizer ==
    \/ InitializeGraph
    \/ CalculateSafeRoute
    \/ RouteOnGraph
    \/ GetAlternativeRoutes
    \/ Return

SpecOptimizer == InitOptimizer /\ [][NextOptimizer]_vars

\* the weights of the call in request whose calculate_safe_route call hands
\* back a route, as indices into SafetyWeights
SucceededWeights ==
    { i \in 1 .. request.num_alternatives :
        \E hour \in Hours :
            calculate_safe_route(request.start_coord, request.end_coord,
                                 SafetyWeights(request.num_alternatives)[i],
                                 request.osrm[i], hour, request.loop_running)
              # None }

C15_OneOfTwo ==
    /\ pc = "done"
    /\ request.op = "get_alternative_routes"
    /\ request.num_alternatives = 2
    /\ Len(alternatives) = 1

\* a call on a built graph, outside an event loop, that found no route
C15_NoneSucceeded ==
    /\ pc = "done"
    /\ request.op = "get_alternative_routes"
    /\ built # NoGraph
    /\ ~ request.loop_running
    /\ alternatives = << >>

----------------------------------------------------------------------------
(* Relations between route results *)

\* the points (lat, lng) of the path of a route, as OSRM would hand them
PathOf(route) ==
    [ k \in 1 .. Len(route.path.coordinates) |->
        Coord(route.path.coordinates[k][2], route.path.coordinates[k][1]) ]

\* the analysis of the route's own path as a polyline, at the same hour
AnalysePath(route, hour) ==
    _process_osrm_route(RouteAnalysis(PathOf(route), hour),
                        route.algorithm_config.safety_weight)

\* C16 as claimed. Polyline round-trip: for every successful graph-based
\* route R, analysing R's own path as a polyline at the same pinned
\* timestamp yields a result equal to R in path, distance_km,
\* estimated_time_minutes, safety_score and threat_segments.
C16_RoundTrip ==
    (pc = "done" /\ request.op = "find_path" /\ result # None) =>
        \A hour \in Hours :
            LET R == RouteAt(hour)
                P == AnalysePath(R, hour)
            IN /\ P.path = R.path
               /\ P.distance_km = R.distance_km
               /\ P.estimated_time_minutes = R.estimated_time_minutes
               /\ P.safety_score = R.safety_score
               /\ P.threat_segments = R.threat_segments

\* what the round trip keeps: the path, the length and the time
C16_SamePathAndLength ==
    (pc = "done" /\ request.op = "find_path" /\ result # None) =>
        \A hour \in Hours :
            LET R == RouteAt(hour)
                P == AnalysePath(R, hour)
            IN /\ P.path = R.path
               /\ P.distance_km = R.distance_km
               /\ P.estimated_time_minutes = R.estimated_time_minutes

\* the stepwise search and the search as one call hand back the same route
SearchAgrees ==
    (pc = "done" /\ request.op = "find_path") =>
        \E hour \in Hours :
            result = find_path(request.start_coord, request.end_coord,
                               request.safety_weight, hour)

\* C17 as claimed. Safety bias: on the same graph and the same start and
\* end, whenever both searches succeed, the route found with safety weight
\* 0.9 has a safety_score greater than or equal to the safety_score of the
\* route found with safety weight 0.1.
C17_SafetyBias ==
    ( /\ pc = "done"
      /\ request.op = "find_path"
      /\ request.safety_weight = 9
      /\ result # None ) =>
        \A hour \in Hours :
            LET fastest == find_path(request.start_coord, request.end_coord, 1, hour)
            IN fastest # None => result.safety_score >= fastest.safety_score

\* every node score of the graph lies in [0, 1]
ScoresInRange ==
    \A id \in DOMAIN nodes : 0 <= nodes[id].uti_score /\ nodes[id].uti_score <= 1000

\* the safety bias on the graphs whose scores all lie in [0, 1]: the bias model
\* refutes it as well
C17_SafetyBiasInRange == ScoresInRange => C17_SafetyBias

----------------------------------------------------------------------------
(* Bias model: graphs over two residential nodes either side of an         *)
(* urban-centre node and one node out of reach, update_uti_scores calls    *)
(* and graph searches                                                      *)

\* two residential coordinates 1.6 km apart just south of latitude 40.74, an
\* urban-centre coordinate between them on 40.741, and a coordinate more than
\* 2 km from the three
BiasPool ==
    << Coord(407390, -739890), Coord(407410, -739795), Coord(407390, -739700),
       Coord(407700, -739950) >>

InitBias ==
    \E coordinates \in CoordinateLists(BiasPool) :
    \E seed \in GraphSeeds :
        LET g == create_enhanced_graph(coordinates, 2000, seed)
        IN /\ nodes = g.nodes
           /\ edges = g.edges
           /\ uti_cache = EmptyCache
           /\ built = [ coordinates |-> coordinates, threshold |-> 2000,
                        seed |-> seed ]
           /\ build_i = Len(coordinates)
           /\ call = [ op |-> "create_enhanced_graph" ]
           /\ SearchIdle
           /\ EngineIdle(seed)

NextBias ==
    \/ UpdateUti
    \/ FindPath
    \/ Expand
    \/ NoPath
    \/ Return

SpecBias == InitBias /\ [][NextBias]_vars

\* the search with weight 0.9 has taken the direct edge between the two
\* residential nodes, the search with weight 0.1 goes through the
\* urban-centre node, and every score of the graph lies in [0, 1]
C17_RoutesDiffer ==
    /\ pc = "done"
    /\ request.op = "find_path"
    /\ request.safety_weight = 9
    /\ result # None
    /\ ScoresInRange
    /\ Len(result.path.coordinates) = 2
    /\ \E hour \in Hours :
         Len(find_path(request.start_coord, request.end_coord, 1, hour)
               .path.coordinates) = 3

\* C18 as claimed. estimated_time_minutes equals distance_km / 5.0 * 60
\* rounded to the nearest integer (5 km/h walking), for every route result of
\* the graph search and of the polyline analysis.
C18_TimeRounded ==
    (pc = "done" /\ result # None) =>
        2 * Abs(100 * result.estimated_time_minutes - 12 * result.distance_km)
          <= 100

\* estimated_time_minutes is distance_km / 5.0 * 60 cut to an integer, up to
\* the rounding of distance_km itself: within one minute below
C18_TimeTruncated ==
    (pc = "done" /\ result # None) =>
        /\ 100 * result.estimated_time_minutes <= 12 * result.distance_km + 6
        /\ 100 * result.estimated_time_minutes > 12 * result.distance_km - 6 - 100

\* what a calculate_safe_route call hands back when the search ran on a built
\* graph and found nothing: find_path and _a_star_search return None, and
\* calculate_safe_route passes it on
NoPathOutcome ==
    pc = "done" /\ request.op = "calculate_safe_route" /\ built # NoGraph
    /\ ~ request.loop_running /\ request.osrm_route = << >>
    /\ result = None

\* the outcome of a calculate_safe_route call made before any graph was built
GraphNotInitialised ==
    pc = "done" /\ request.op = "calculate_safe_route" /\ built = NoGraph

\* C19 as claimed. A route request made before any graph was built is
\* rejected without touching any state, and the caller can tell its outcome
\* (GraphNotInitialised) from the NoPath outcome of a search that ran and
\* found nothing.
C19_GraphNotInitialised ==
    GraphNotInitialised =>
        /\ GraphIsNone
        /\ alternatives = << >>
        /\ result # None

\* the rejection leaves the optimizer as it was: no graph, no cache, no
\* alternatives, and None is returned
C19_RejectedUntouched ==
    [][ (built = NoGraph /\ request'.op = "calculate_safe_route")
          => /\ pc' = "done"
             /\ result' = None
             /\ UNCHANGED <<nodes, edges, uti_cache, built, build_i, call>>
             /\ UNCHANGED engineVars ]_vars

-----------------------------------------------------------------------------
(* Shared-graph model: an update_uti_scores call running beside a search *)

\* The graph is a module-level object without a lock: a second thread may run
\* update_uti_scores while a search is between two passes of its loop.  call
\* holds the position of the running update.

Updating == call.op = "update_uti_scores" /\ "items" \in DOMAIN call

Connected(es, i, j) ==
    \E k \in 1 .. Len(es[NodeId(i)]) : es[NodeId(i)][k].to_node = NodeId(j)

\* "if edge.from_node.id not in self.edges: self.edges[...] = []": a key
\* enters the dict once
AppendNew(keys, id) ==
    IF \E k \in 1 .. Len(keys) : keys[k] = id THEN keys ELSE Append(keys, id)

RECURSIVE RowKeys(_, _, _, _, _)
\* the keys of self.edges after row i of the construction loops, columns j on:
\* add_edge enters the from-node, then the to-node
RowKeys(keys, es, i, j, n) ==
    IF j >= n THEN keys
    ELSE RowKeys(IF Connected(es, i, j)
                 THEN AppendNew(AppendNew(keys, NodeId(i)), NodeId(j))
                 ELSE keys,
                 es, i, j + 1, n)

RECURSIVE EdgeKeys(_, _, _, _)
\* the keys of self.edges in the order of the dict
EdgeKeys(keys, es, i, n) ==
    IF i >= n THEN keys
    ELSE EdgeKeys(RowKeys(keys, es, i, 0, n), es, i + 1, n)

RECURSIVE ItemsOf(_, _)
ItemsOf(keys, es) ==
    IF keys = << >> THEN << >>
    ELSE [ k \in 1 .. Len(es[keys[1]]) |-> << keys[1], k >> ]
         \o ItemsOf(Tail(keys), es)

\* the edges in the order of "for node_id, edges in self.edges.items(): for
\* edge in edges", as pairs of key and list position
EdgeItems(es) ==
    ItemsOf(EdgeKeys(<< >>, es, 0, Cardinality(DOMAIN es)), es)

\* the orders in which uti_predictions.items() may hand out the ids
ItemOrders(ids) ==
    { s \in [ 1 .. Cardinality(ids) -> ids ] :
        \A a, b \in 1 .. Cardinality(ids) : a # b => s[a] # s[b] }

\* a thread enters graph.update_uti_scores(uti_predictions): the first update
\* of the graph
BeginUpdate ==
    /\ call.op = "create_enhanced_graph"
    /\ \E uti_predictions \in PredictionMaps(nodes) :
       \E items \in ItemOrders(DOMAIN uti_predictions) :
           call' = [ op |-> "update_uti_scores",
                     uti_predictions |-> uti_predictions,
                     items |-> items, i |-> 0, j |-> 0, before |-> nodes ]
    /\ UNCHANGED <<nodes, edges, uti_cache, built, build_i>>
    /\ UNCHANGED searchVars
    /\ UNCHANGED engineVars

\* one pass of "for node_id, uti_score in uti_predictions.items()"
UpdateNodeScore ==
    /\ Updating
    /\ call.i < Len(call.items)
    /\ LET node_id == call.items[call.i + 1]
           uti_score == call.uti_predictions[node_id]
       IN IF node_id \in DOMAIN nodes
          THEN /\ nodes' = [nodes EXCEPT ![node_id].uti_score = uti_score]
               /\ uti_cache' = [ id \in DOMAIN uti_cache \cup { node_id } |->
                                   IF id = node_id THEN uti_score
                                   ELSE uti_cache[id] ]
          ELSE UNCHANGED <<nodes, uti_cache>>
    /\ call' = [call EXCEPT !.i = @ + 1]
    /\ UNCHANGED <<edges, built, build_i>>
    /\ UNCHANGED searchVars
    /\ UNCHANGED engineVars

\* one pass of "for edge in edges" of the second loop
UpdateEdgeScore ==
    /\ Updating
    /\ call.i = Len(call.items)
    /\ call.j < Len(EdgeItems(edges))
    /\ LET item == EdgeItems(edges)[call.j + 1]
           edge == edges[item[1]][item[2]]
           from_uti == nodes[edge.from_node].uti_score
           to_uti == nodes[edge.to_node].uti_score
       IN edges' = [edges EXCEPT
                      ![item[1]][item[2]].avg_uti_score = from_uti + to_uti]
    /\ call' = [call EXCEPT !.j = @ + 1]
    /\ UNCHANGED <<nodes, uti_cache, built, build_i>>
    /\ UNCHANGED searchVars
    /\ UNCHANGED engineVars

\* both loops are through: update_uti_scores returns
UpdateReturn ==
    /\ Updating
    /\ call.i = Len(call.items)
    /\ call.j = Len(EdgeItems(edges))
    /\ call' = [ op |-> "update_uti_scores" ]
    /\ UNCHANGED <<nodes, edges, uti_cache, built, build_i>>
    /\ UNCHANGED searchVars
    /\ UNCHANGED engineVars

NextShared ==
    \/ BeginUpdate
    \/ UpdateNodeScore
    \/ UpdateEdgeScore
    \/ UpdateReturn
    \/ FindPath
    \/ Expand
    \/ NoPath
    \/ Return

SpecShared == InitBias /\ [][NextShared]_vars

\* the node scores a search may see if updates are atomic: those before the
\* running update and those after it
Versions ==
    IF Updating
    THEN { call.before, ApplyScores(call.before, call.uti_predictions) }
    ELSE { nodes }

\* the edges the next pass of the search loop reads: those of the node at the
\* top of the heap
EdgesRead ==
    IF pc = "searching" /\ open_set # << >> /\ nodes_explored < max_explorations
       /\ heappop(path_nodes, open_set).item # end_node
    THEN LET list == edges[heappop(path_nodes, open_set).item]
         IN { list[k] : k \in 1 .. Len(list) }
    ELSE {}

\* C20 as claimed. update_uti_scores is atomic with respect to the searches on
\* the same graph: under any interleaving no pass of a search observes a
\* partially applied update; at every edge it reads, avg_uti_score is the mean
\* of the endpoints' uti_score as of one single update, all before it or all
\* after it.
C20_AtomicUpdate ==
    \E ns \in Versions :
        \A edge \in EdgesRead :
            edge.avg_uti_score
              = ns[edge.from_node].uti_score + ns[edge.to_node].uti_score

\* each single edge carries the mean of its endpoints before or after the
\* running update
C20_EachEdgeOldOrNew ==
    \A edge \in AllEdges :
        \E ns \in Versions :
            edge.avg_uti_score
              = ns[edge.from_node].uti_score + ns[edge.to_node].uti_score

\* run to its end, the two loops leave what update_uti_scores leaves when
\* nothing runs beside it
C20_LoopsAreTheUpdate ==
    (Updating /\ call.i = Len(call.items) /\ call.j = Len(EdgeItems(edges))) =>
        /\ nodes = ApplyScores(call.before, call.uti_predictions)
        /\ edges = RecomputeEdges(edges, nodes, call.uti_predictions)

\* a search reads the edges of a node while an update has recomputed some of
\* them
C20_SearchDuringEdgeLoop ==
    Updating /\ call.j > 0 /\ call.j < Len(EdgeItems(edges))
    /\ Cardinality(EdgesRead) >= 2

-----------------------------------------------------------------------------
(* Provider model: find_enhanced_path with the external route provider *)

\* geometries the provider answers with: a decoded route, and a route whose
\* geometry has no coordinates
ProviderRoutes == OsrmAnswers \cup { << >> }

ProviderAnswers ==
    ProviderFailures \cup { ProviderRoute(p) : p \in ProviderRoutes }

\* ProductionSafetyAwareAStar(graph, W).find_enhanced_path(start_coord,
\* end_coord): get_osrm_route, then the polyline analysis or the graph search
FindEnhancedPath ==
    /\ pc = "idle"
    /\ \E r \in RouteRequests, W \in Weights, answer \in ProviderAnswers,
          hour \in Hours :
         LET got == get_osrm_route(osrm_cache, r[1], r[2], answer)
         IN /\ request' = [ op |-> "find_enhanced_path", start_coord |-> r[1],
                            end_coord |-> r[2], safety_weight |-> W,
                            answer |-> answer, asked |-> got.asked ]
            /\ osrm_cache' = got.cache
            /\ result' = find_enhanced_path(r[1], r[2], W, got.route, hour)
    /\ pc' = "done"
    /\ UNCHANGED <<nodes, edges, uti_cache, built, build_i, call, start_node,
                   end_node, open_set, closed_set, path_nodes, nodes_explored>>
    /\ UNCHANGED <<alternatives, is_loaded, hash_seed>>

NextProvider ==
    \/ FindEnhancedPath
    \/ Return

SpecProvider == Init /\ [][NextProvider]_vars

\* the provider was asked during the call in request and failed
ProviderFailed ==
    /\ pc = "done" /\ request.op = "find_enhanced_path"
    /\ request.asked /\ request.answer \in ProviderFailures

\* C21. The core does not depend on the external route provider: when the
\* provider call raises, times out or returns no route, the request falls
\* back to the graph search and returns its result (route_type graph_based)
\* or no path; the failure is not propagated and not stored in the provider
\* cache, so a later call asks the provider again.
C21_ProviderFallback ==
    ProviderFailed =>
        /\ \E hour \in Hours :
               result = find_path(request.start_coord, request.end_coord,
                                  request.safety_weight, hour)
        /\ result = None \/ result.route_type = "graph_based"
        /\ cache_key(request.start_coord, request.end_coord)
             \notin DOMAIN osrm_cache

\* the provider timed out and the graph search has found a route
C21_FallbackRoute ==
    /\ ProviderFailed
    /\ request.answer.kind = "timeout"
    /\ result # None /\ result.route_type = "graph_based"

\* the provider is asked unless the key is in the cache, and a key enters the
\* cache only with the route of an answer
C21_AskedUnlessCached ==
    [][ (pc = "idle" /\ request'.op = "find_enhanced_path") =>
          LET key == cache_key(request'.start_coord, request'.end_coord)
          IN /\ request'.asked = (key \notin DOMAIN osrm_cache)
             /\ (key \in DOMAIN osrm_cache' /\ key \notin DOMAIN osrm_cache)
                  => request'.answer.kind = "route" ]_vars

-----------------------------------------------------------------------------
(* Properties of the expansion order and of the open set *)

\* the loop of _a_star_search goes on: a pass will pop a PathNode
LoopGoesOn ==
    pc = "searching" /\ open_set # << >> /\ nodes_explored < max_explorations

\* the node the next pass pops: heapq.heappop hands back the head of the list
NextPopped == heappop(path_nodes, open_set).item

\* C22 as claimed. Within a single search, node expansions occur in
\* f-ascending order: the f value of each expanded node is not smaller than
\* the f value of the node expanded before it.
C22_FAscending ==
    [][ (LoopGoesOn /\ pc' = "searching" /\ open_set' # << >>
         /\ nodes_explored' < max_explorations)
          => path_nodes'[heappop(path_nodes', open_set').item].f_cost
               >= path_nodes[NextPopped].f_cost ]_vars



\* C23 as claimed. The open set behaves as a min-heap keyed by f throughout a
\* search: each expansion removes an open state whose f is minimal among all
\* states in the open set, also after the g and f of a state already in the
\* open set were lowered by a relaxation.
C23_PopsMinimum ==
    LoopGoesOn =>
        \A k \in 1 .. Len(open_set) :
            path_nodes[NextPopped].f_cost <= path_nodes[open_set[k]].f_cost

-----------------------------------------------------------------------------
(* Heap model: graphs in which a node waits in the open set while a cheaper *)
(* way to it is found                                                       *)

\* longest coordinate list of the heap model
MaxHeapNodes == 4

\* the three coordinates of the bias model, a residential coordinate 170 m
\* north of the third, and a coordinate more than 2 km from the others
HeapPool ==
    << Coord(407390, -739890), Coord(407410, -739795), Coord(407390, -739700),
       Coord(407405, -739695), Coord(407700, -739950) >>

InitHeap ==
    \E i \in 1 .. Len(HeapPool), n \in 1 .. MaxHeapNodes :
    \E seed \in GraphSeeds :
        LET coordinates == SubSeq(HeapPool, i, Min(i + n - 1, Len(HeapPool)))
            g == create_enhanced_graph(coordinates, 2000, seed)
        IN /\ nodes = g.nodes
           /\ edges = g.edges
           /\ uti_cache = EmptyCache
           /\ built = [ coordinates |-> coordinates, threshold |-> 2000,
                        seed |-> seed ]
           /\ build_i = Len(coordinates)
           /\ call = [ op |-> "create_enhanced_graph" ]
           /\ SearchIdle
           /\ EngineIdle(seed)

NextHeap ==
    \/ FindPath
    \/ Expand
    \/ NoPath
    \/ Return

SpecHeap == InitHeap /\ [][NextHeap]_vars

-----------------------------------------------------------------------------
(* Invariants of the search state *)

RECURSIVE ReachesStart(_, _)
\* following parent from the PathNode of id arrives at the PathNode of the
\* start node within k steps
ReachesStart(id, k) ==
    IF id = start_node THEN TRUE
    ELSE IF k = 0 THEN FALSE
    ELSE /\ path_nodes[id].parent \in DOMAIN path_nodes
         /\ ReachesStart(path_nodes[id].parent, k - 1)

\* a search is under way or has just ended
InSearch == request.op = "find_path" /\ start_node # NoNode

\* C24. At every step of a search on a graph whose scores are in [0,1] and
\* with a safety weight in [0,1], every search state has f = g + h and g >= 0,
\* the start state has g = 0 and no parent, every other state with finite g
\* has a parent that is already in the closed set, and following parent
\* pointers from any such state reaches the start without a cycle.
C24_SearchStateInvariants ==
    (InSearch /\ ScoresInRange /\ request.safety_weight \in 0 .. 10) =>
        /\ start_node \in DOMAIN path_nodes
        /\ path_nodes[start_node].g_cost = 0
        /\ path_nodes[start_node].parent = NoNode
        /\ \A id \in DOMAIN path_nodes :
             /\ path_nodes[id].node = id
             /\ path_nodes[id].f_cost = path_nodes[id].g_cost + path_nodes[id].h_cost
             /\ path_nodes[id].g_cost >= 0
             /\ (id # start_node /\ path_nodes[id].g_cost < inf) =>
                  /\ path_nodes[id].parent \in closed_set
                  /\ ReachesStart(id, Cardinality(DOMAIN path_nodes) - 1)

\* a search has a state whose parent is not the start state
C24_ChainOfTwo ==
    /\ InSearch /\ ScoresInRange /\ pc = "searching"
    /\ \E id \in DOMAIN path_nodes :
         /\ id # start_node
         /\ path_nodes[id].parent # start_node
         /\ path_nodes[id].parent \in closed_set

-----------------------------------------------------------------------------
(* Frame of the graph search *)

\* a step of find_path: its start, a pass of the loop, or its end
FindPathStep ==
    \/ pc = "idle" /\ request'.op = "find_path"
    \/ pc = "searching"

\* C25. A graph search (find_path, whether it succeeds or returns no path)
\* leaves the graph unchanged: no node's uti_score or node_type, no edge
\* attribute, and neither the node set nor any adjacency list is modified;
\* node scores change only through update_uti_scores.
C25_SearchLeavesGraph ==
    [][ /\ FindPathStep => UNCHANGED <<nodes, edges, uti_cache>>
        /\ nodes' # nodes =>
             (pc = "idle" /\ pc' = "idle" /\ call'.op = "update_uti_scores") ]_vars

\* a search on an updated graph has run its loop and ended without a path
C25_SearchesEnded ==
    /\ pc = "done" /\ request.op = "find_path"
    /\ call.op = "update_uti_scores"
    /\ start_node # NoNode
    /\ result = None

-----------------------------------------------------------------------------
(* Completeness of the graph search *)

RECURSIVE ReachableFrom(_)
\* the nodes that can be reached from the nodes of S along graph edges
ReachableFrom(S) ==
    LET next == S \cup UNION { { edges[a][k].to_node : k \in 1 .. Len(edges[a]) } :
                               a \in S }
    IN IF next = S THEN S ELSE ReachableFrom(next)

\* C26. Completeness independent of the weight: on any graph with at most
\* 15000 nodes and for any safety weight, the graph search returns a route if
\* and only if the goal node is reachable from the start node along graph
\* edges; hence for fixed graph, start and end, either every safety weight
\* yields a route or none does.
C26_Completeness ==
    (pc = "done" /\ request.op = "find_path") =>
        LET s == _find_nearest_node(nodes, request.start_coord)
            e == _find_nearest_node(nodes, request.end_coord)
            reachable == s # NoNode /\ e # NoNode /\ e \in ReachableFrom({ s })
        IN /\ (result # None) <=> reachable
           /\ \A W \in Weights, hour \in Hours :
                (find_path(request.start_coord, request.end_coord, W, hour) # None)
                  <=> (result # None)

\* a search has handed back a route over three nodes
C26_RouteFound ==
    /\ pc = "done" /\ request.op = "find_path"
    /\ result # None
    /\ Len(result.path.coordinates) = 3

\* a search has run over two nodes and found no path to a goal out of reach
C26_GoalOutOfReach ==
    /\ pc = "done" /\ request.op = "find_path"
    /\ result = None
    /\ nodes_explored >= 2

-----------------------------------------------------------------------------
(* Single expansion *)

\* initialize_graph: np.linspace(..., 25) in each direction
LatticeSteps == 25

NoDuplicates(list) ==
    \A a, b \in 1 .. Len(list) : a # b => list[a] # list[b]

\* C27. Single expansion: within one search each node is popped from the open
\* set at most once, a node is never in the open set twice at the same time,
\* and a closed node is never re-opened; so the number of expansions is at
\* most the number of graph nodes and the cap of 15000 expansions cannot be
\* hit on a graph with fewer than 15000 nodes (such as the default 25x25
\* lattice).
C27_SingleExpansion ==
    InSearch =>
        /\ NoDuplicates(open_set)
        /\ \A k \in 1 .. Len(open_set) : open_set[k] \notin closed_set
        /\ nodes_explored
             = Cardinality(closed_set)
               + (IF pc = "done" /\ result # None THEN 1 ELSE 0)
        /\ (pc = "done" /\ result # None) => end_node \notin closed_set
        /\ nodes_explored <= Cardinality(DOMAIN nodes)
        /\ Cardinality(DOMAIN nodes) < max_explorations
             => nodes_explored < max_explorations
        /\ LatticeSteps * LatticeSteps < max_explorations

\* a node that went into the open set with the first expansion has got a
\* cheaper way over a second node while it waits there
C27_RelaxedInOpenSet ==
    /\ InSearch /\ pc = "searching"
    /\ \E k \in 1 .. Len(open_set) :
         /\ path_nodes[open_set[k]].parent # start_node
         /\ \E j \in 1 .. Len(edges[start_node]) :
              edges[start_node][j].to_node = open_set[k]

-----------------------------------------------------------------------------
(* Parallel edges *)

\* the positions in the adjacency list of a that hold an edge to b
CopiesOf(a, b) == { k \in 1 .. Len(edges[a]) : edges[a][k].to_node = b }

\* C28. Parallel edges: the builder visits every ordered pair (a,b), a # b,
\* and each accepted visit inserts both directions, so in a built graph every
\* connected ordered pair (a,b) appears exactly twice in the adjacency list of
\* a, the two copies carrying identical attributes, and they stay identical
\* after every update_uti_scores call.
C28_ParallelEdges ==
    \A a \in DOMAIN edges : \A k \in 1 .. Len(edges[a]) :
        LET e == edges[a][k]
        IN /\ e.from_node = a
           /\ e.to_node # a
           /\ Cardinality(CopiesOf(a, e.to_node)) = 2
           /\ \A m \in CopiesOf(a, e.to_node) : edges[a][m] = e

\* a node has two neighbours, so four edges, and an update has given its
\* edges to the two neighbours different scores
C28_TwoNeighbours ==
    /\ call.op = "update_uti_scores"
    /\ \E a \in DOMAIN edges :
         /\ Len(edges[a]) = 4
         /\ \E k, m \in 1 .. 4 :
              /\ edges[a][k].to_node # edges[a][m].to_node
              /\ edges[a][k].avg_uti_score # edges[a][m].avg_uti_score
              /\ a \in DOMAIN uti_cache

-----------------------------------------------------------------------------
(* Degenerate route *)

\* the call in request is a find_path whose two coordinates snap to one node
SameNodeRequest ==
    /\ pc = "done" /\ request.op = "find_path"
    /\ _find_nearest_node(nodes, request.start_coord) # NoNode
    /\ _find_nearest_node(nodes, request.start_coord)
         = _find_nearest_node(nodes, request.end_coord)

\* C29. Degenerate route: when the start and end coordinates snap to the same
\* graph node, the graph search succeeds after one expansion and returns a
\* path of exactly one point, distance_km 0, estimated_time_minutes 0,
\* safety_score 1.0 and no threat segments, regardless of that node's
\* uti_score and of the safety weight.
C29_DegenerateRoute ==
    SameNodeRequest =>
        LET node == nodes[_find_nearest_node(nodes, request.start_coord)]
        IN /\ nodes_explored = 1
           /\ result # None
           /\ result.route_type = "graph_based"
           /\ result.path.coordinates = << << node.lng, node.lat >> >>
           /\ result.distance_km = 0
           /\ result.estimated_time_minutes = 0
           /\ result.safety_score = 1000000
           /\ result.threat_segments = << >>

\* a degenerate route at a node whose score was set to 1.4, in a graph with
\* other nodes, searched with safety weight 0.9
C29_OnRiskyNode ==
    /\ SameNodeRequest
    /\ request.safety_weight = 9
    /\ nodes[start_node].uti_score = 1400
    /\ Len(edges[start_node]) >= 2


----------------------------------------------------------------------------
(* Route request handler of main.py: startup_event, the UTI map of          *)
(* _generate_uti_predictions and the calculate_safe_route call made with it *)

\* the grid of _generate_uti_predictions: np.linspace(..., 10) each way
GridSteps == 10

\* the id builder naming the grid points like graph nodes, node_{n}
PredictionIdFlat(i, j) == NodeId(i * GridSteps + j)

\* f"node_{i}_{j}"
PredictionId(i, j) == <<"node", i, j>>

\* _calculate_mock_uti_score(lat, lng, timestamp), unit 1e-7
_calculate_mock_uti_score(lat, lng, timestamp, seed) ==
    LET coord_hash == StrHash(lat, lng, seed) % 1000
        hour == timestamp.hour
        by_hour == IF 22 <= hour \/ hour <= 5 THEN 2500000
                   ELSE IF (6 <= hour /\ hour <= 8) \/ (17 <= hour /\ hour <= 19)
                   THEN 1000000
                   ELSE 0
        by_day == IF timestamp.weekday >= 5 THEN 1500000 ELSE 0
        by_distance == IF CenterDistance(lat, lng) > 500 THEN 1000000 ELSE 0
    IN Min(8000000, coord_hash * 3000 + by_hour + by_day + by_distance)

\* area_bounds of the handler: the box of the two points, 0.01 degree wider
AreaBounds(start, end) ==
    [ sw |-> Coord(Min(start.lat, end.lat) - 100, Min(start.lng, end.lng) - 100),
      ne |-> Coord(Max(start.lat, end.lat) + 100, Max(start.lng, end.lng) + 100) ]

\* _generate_uti_predictions(bounds, timestamp): one entry per grid point,
\* min(1.0, base_score) in thousandths as Node.uti_score holds it
_generate_uti_predictions(bounds, timestamp, model_loaded, seed) ==
    LET Point(i, j) == Coord(Linspace(bounds.sw.lat, bounds.ne.lat, GridSteps, i),
                             Linspace(bounds.sw.lng, bounds.ne.lng, GridSteps, j))
        BaseScore(i, j) ==
            IF model_loaded
            THEN predict_uti_score(Point(i, j).lat, Point(i, j).lng, timestamp, seed)
            ELSE _calculate_mock_uti_score(Point(i, j).lat, Point(i, j).lng,
                                           timestamp, seed)
        grid == { <<i, j>> : i \in 0 .. GridSteps - 1, j \in 0 .. GridSteps - 1 }
        at == [ id \in { PredictionId(p[1], p[2]) : p \in grid } |->
                  CHOOSE p \in grid : PredictionId(p[1], p[2]) = id ]
    IN [ id \in DOMAIN at |->
           Min(10000000, BaseScore(at[id][1], at[id][2])) \div 10000 ]

\* what current_time = datetime.now() reads in the handler
\* a Sunday night and a Wednesday afternoon
HandlerTimestamps ==
    { [ hour |-> 3, weekday |-> 6, yday |-> 15 ],
      [ hour |-> 14, weekday |-> 2, yday |-> 15 ] }

\* start and end of the requests the handler gets
HandlerRequests ==
    { << Coord(407410, -739890), Coord(407260, -739700) >>,
      << Coord(407260, -739700), Coord(407700, -739950) >> }

InitHandler ==
    \E seed \in GraphSeeds :
        /\ GraphIsNone
        /\ SearchIdle
        /\ EngineIdle(seed)

\* startup_event: route_optimizer.initialize_graph builds the graph, then
\* prediction_engine.initialize_model() succeeds (model_loaded = True) or
\* raises (model_loaded = False)
Startup ==
    /\ pc = "idle"
    /\ built = NoGraph
    /\ \E coordinates \in CoordinateLists(SearchPool) :
         LET g == create_enhanced_graph(coordinates, 2000, hash_seed)
         IN /\ nodes' = g.nodes
            /\ edges' = g.edges
            /\ built' = [ coordinates |-> coordinates, threshold |-> 2000,
                          seed |-> hash_seed ]
            /\ build_i' = Len(coordinates)
    /\ uti_cache' = EmptyCache
    /\ call' = [ op |-> "create_enhanced_graph" ]
    /\ \E loaded \in BOOLEAN : is_loaded' = loaded
    /\ UNCHANGED searchVars
    /\ UNCHANGED <<alternatives, hash_seed, osrm_cache>>

\* POST /api/v1/route/safe up to the routing: the UTI map of the area is
\* generated and handed to route_optimizer.calculate_safe_route, which
\* applies it to the graph.  The handler itself runs inside the event loop
\* (loop_running); the same call made outside a loop is modelled as well
HandleSafeRoute ==
    /\ pc = "idle"
    /\ built # NoGraph
    /\ \E r \in HandlerRequests, W \in Weights, current_time \in HandlerTimestamps,
          osrm_route \in OsrmAnswers \cup { << >> }, loop_running \in BOOLEAN :
         LET area_bounds == AreaBounds(r[1], r[2])
             uti_predictions == _generate_uti_predictions(area_bounds,
                                    current_time, is_loaded, hash_seed)
         IN /\ (loop_running => osrm_route = << >>)
            /\ request' = [ op |-> "calculate_safe_route", start_coord |-> r[1],
                            end_coord |-> r[2], safety_weight |-> W,
                            uti_predictions |-> uti_predictions,
                            osrm_route |-> osrm_route,
                            loop_running |-> loop_running ]
            /\ update_uti_scores(uti_predictions)
    /\ call' = [ op |-> "update_uti_scores" ]
    /\ pc' = "routing"
    /\ result' = None
    /\ UNCHANGED <<built, build_i>>
    /\ UNCHANGED <<start_node, end_node, open_set, closed_set, path_nodes,
                   nodes_explored>>
    /\ UNCHANGED engineVars

NextHandler ==
    \/ Startup
    \/ HandleSafeRoute
    \/ RouteOnGraph
    \/ Return

SpecHandler == InitHandler /\ [][NextHandler]_vars

\* the route of calculate_safe_route for the call in request, when no UTI
\* map is given, on the graph as it is: with the provider's route if the
\* call left one in the cache
RouteWithoutMap(hour) ==
    LET key == cache_key(request.start_coord, request.end_coord)
    IN calculate_safe_route(request.start_coord, request.end_coord,
           request.safety_weight,
           IF key \in DOMAIN osrm_cache THEN osrm_cache[key] ELSE << >>,
           hour, request.loop_running)

\* C30: the ids of the handler's UTI map (node_i_j) match no graph node
\* (node_n), so applying the map changes no node's uti_score, adds nothing to
\* uti_cache and leaves every edge's avg_uti_score at its build-time value;
\* the route handed back is the one calculate_safe_route gives without a map
C30_PredictionIdsNeverMatch ==
    built # NoGraph =>
        LET g == create_enhanced_graph(built.coordinates, built.threshold,
                                       built.seed)
        IN /\ nodes = g.nodes
           /\ edges = g.edges
           /\ uti_cache = EmptyCache
           /\ (pc = "routing" =>
                  DOMAIN request.uti_predictions \cap DOMAIN nodes = {})
           /\ (pc = "done" => \E hour \in Hours : result = RouteWithoutMap(hour))

\* a map of GridSteps * GridSteps scores was applied to a graph of three
\* nodes and a route came back
C30_MapAppliedRouteReturned ==
    /\ pc = "done"
    /\ call.op = "update_uti_scores"
    /\ Cardinality(DOMAIN request.uti_predictions) = GridSteps * GridSteps
    /\ Cardinality(DOMAIN nodes) = 3
    /\ result # None

====
